---- MODULE Spec2Model ----
(***************************************************************************)
(* Model of the alerting pipeline of backend/alerting/enhanced_dispatcher: *)
(* RateLimiter, AlertCooldown and EnhancedAlertDispatcher (ingest queue,   *)
(* consumer thread, start/stop, statistics).                               *)
(***************************************************************************)
EXTENDS Integers, Sequences, FiniteSets, TLC

\* ------------------------------------------------------------------ bounds
\* Largest configured max_alerts_per_hour explored (the field is set at
\* construction from the configuration).
MaxAlertsPerHour == 3
\* Direct calls of RateLimiter.can_send_alert explored.
MaxRateCalls == 5
\* Direct calls of AlertCooldown.can_send_alert explored.
MaxCooldownCalls == 4
\* Clock advances explored by the gate specifications.
MaxTicks == 3
\* Clock advances explored by the dispatcher specification.
MaxDispatchTicks == 1
\* dispatch_alert calls explored by the dispatcher specifications.
MaxIngest == 2
\* Threads start() can create.
MaxThreads == 2
\* Concurrent callers of start() and stop().
NumControllers == 2
\* Concurrent callers of dispatch_alert.
NumProducers == 2
\* get_statistics calls in a row explored.
MaxStatsCalls == 2
\* Length of the alert lists handed to correlate_events.
MaxCorrelated == 5
\* Clock advances explored before correlate_events is called.
MaxCorrelateTicks == 1
\* Samples added to the BehaviorAnalyzer.
MaxHistory == 15
\* Samples among them that differ from the calm sample.
MaxOutliers == 2
\* add_metrics calls explored when the window is filled beyond its capacity.
MaxPushes == 102
\* Samples among those with a high CPU value.
MaxWindowOutliers == 1
\* Length of the lists of detector alerts handed to correlate_events.
MaxFed == 3
\* Length of the processes argument of detect_threats.
MaxProcesses == 2
\* Length of the recent_alerts argument of detect_threats.
MaxRecent == 2
MaxCycles == 3

\* ------------------------------------------------------- program constants
\* RateLimiter.can_send_alert: hour_ago = now - 3600
RateWindow == 3600
\* AlertingConfig.alert_cooldown_seconds
DefaultCooldown == 300
\* EnhancedSecurityDetector.correlation_window = timedelta(minutes=10), seconds
CorrelationWindow == 600
\* BehaviorAnalyzer.window_size
WindowSize == 100
\* EnhancedSecurityDetector.detection_history = deque(maxlen=1000)
DetectionHistorySize == 1000
RunnerMetricsKept == 1000
RecentAlertsKept == 500

\* Clock advances (seconds): chosen so that elapsed times of exactly the
\* cooldown and exactly the rate window, one less and one more, all occur.
RateTickSteps == {1, RateWindow - 1}
CooldownTickSteps == {1, DefaultCooldown - 1}

VARIABLES
    now,                  \* time.time(), in seconds
    ticks,                \* number of clock advances so far
    max_alerts_per_hour,  \* RateLimiter.max_alerts_per_hour
    alert_timestamps,     \* RateLimiter.alert_timestamps (deque, oldest first)
    rl_log,               \* history: the direct RateLimiter calls, [t, ok]
    cooldown_seconds,     \* AlertCooldown.cooldown_seconds
    last_alerts,          \* AlertCooldown.last_alerts (dict key -> time)
    cd_log,               \* history: the direct AlertCooldown calls, [key, t, ok]
    config,               \* AlertingConfig: the three enable_* flags
    notifiers,            \* EnhancedAlertDispatcher.notifiers (its keys)
    alert_queue,          \* EnhancedAlertDispatcher.alert_queue (Queue, FIFO)
    running,              \* EnhancedAlertDispatcher.running
    processing_thread,    \* EnhancedAlertDispatcher.processing_thread (0: None)
    stats,                \* EnhancedAlertDispatcher.stats
    threads,              \* the threads created by start(), running _process_alerts
    ctl,                  \* callers of start() and stop(): position and locals
    prod,                 \* callers of dispatch_alert(): position and locals
    last_ingest,          \* history: the last noted dispatch_alert call, [alert, accepted]
    ingests,              \* history: number of dispatch_alert calls begun
    snapshot,             \* the dict the last get_statistics() call returned
    returned,             \* history: the content of that dict when it was returned
    stat_calls,           \* history: get_statistics() calls since the last other call or step
    threat_patterns,      \* ThreatIntelligence.threat_patterns (the catalog)
    det_call,             \* the arguments of the detector call examined
    det_result,           \* what that call returned
    metrics_history,      \* BehaviorAnalyzer.metrics_history
    pushed,               \* history: every sample handed to add_metrics, in call order
    detection_history,    \* EnhancedSecurityDetector.detection_history
    detection_stats,      \* EnhancedSecurityDetector.detection_stats
    runner_metrics_history, \* EnhancedSecurityServiceRunner.metrics_history
    recent_alerts,        \* EnhancedSecurityServiceRunner.recent_alerts
    service_stats         \* EnhancedSecurityServiceRunner.service_stats (its counters)

clockVars == <<now, ticks>>
rateVars == <<max_alerts_per_hour, alert_timestamps>>
coolVars == <<cooldown_seconds, last_alerts>>
logVars == <<rl_log, cd_log>>
gateVars == <<rateVars, coolVars, logVars>>
confVars == <<config, notifiers>>
lifeVars == <<running, processing_thread, ctl>>
ingestVars == <<prod, last_ingest, ingests>>
statVars == <<snapshot, returned, stat_calls>>
dispVars == <<confVars, alert_queue, stats, threads, lifeVars, ingestVars, statVars>>
detectorState == <<detection_history, detection_stats>>
detVars == <<threat_patterns, det_call, det_result, metrics_history, pushed, detectorState>>
runnerVars == <<runner_metrics_history, recent_alerts, service_stats>>
vars == <<clockVars, gateVars, dispVars, detVars, runnerVars>>

\* A call or step of the dispatcher other than get_statistics(): whatever
\* get_statistics() returned before is left to its holder.
StatsEvent == stat_calls' = 0 /\ UNCHANGED <<snapshot, returned>>

\* An empty dict.
EmptyDict == [k \in {} |-> 0]

\* d[key] = value on a dict.
DictSet(d, key, value) ==
    [k \in (DOMAIN d) \cup {key} |-> IF k = key THEN value ELSE d[k]]

\* ------------------------------------------------------------ RateLimiter
\* A purge that also drops a timestamp exactly one hour old.
RECURSIVE PurgeOldInclusive(_, _)
PurgeOldInclusive(ts, hour_ago) ==
    IF ts # <<>> /\ Head(ts) <= hour_ago
    THEN PurgeOldInclusive(Tail(ts), hour_ago)
    ELSE ts

\* while self.alert_timestamps and self.alert_timestamps[0] < hour_ago: popleft()
RECURSIVE PurgeOld(_, _)
PurgeOld(ts, hour_ago) ==
    IF ts # <<>> /\ Head(ts) < hour_ago
    THEN PurgeOld(Tail(ts), hour_ago)
    ELSE ts

\* The value RateLimiter.can_send_alert returns when called at time t.
RateLimiterResult(ts, limit, t) ==
    Len(PurgeOld(ts, t - RateWindow)) < limit

\* RateLimiter.alert_timestamps after can_send_alert was called at time t.
RateLimiterAfter(ts, limit, t) ==
    LET purged == PurgeOld(ts, t - RateWindow)
    IN  IF Len(purged) < limit THEN Append(purged, t) ELSE purged

\* RateLimiter.can_send_alert(), under its lock: the effect on the limiter.
RateLimiter_can_send_alert ==
    /\ alert_timestamps' = RateLimiterAfter(alert_timestamps, max_alerts_per_hour, now)
    /\ UNCHANGED max_alerts_per_hour

\* ----------------------------------------------------------- AlertCooldown
\* key = f"{alert_type}:{alert_key}" if alert_key else alert_type
\* (alert_key "" stands for a falsy alert_key: None or the empty string)
CooldownKey(alert_type, alert_key) ==
    IF alert_key # "" THEN alert_type \o ":" \o alert_key ELSE alert_type

\* A cooldown test that still blocks at exactly cooldown_seconds.
CooldownBlockedInclusive(la, cooldown, key, t) ==
    key \in DOMAIN la /\ t - la[key] <= cooldown

\* if key in self.last_alerts: if now - self.last_alerts[key] < self.cooldown_seconds
CooldownBlocked(la, cooldown, key, t) ==
    key \in DOMAIN la /\ t - la[key] < cooldown

\* The value AlertCooldown.can_send_alert returns for key at time t.
CooldownResult(la, cooldown, key, t) ==
    ~ CooldownBlocked(la, cooldown, key, t)

\* AlertCooldown.last_alerts after can_send_alert for key at time t.
CooldownAfter(la, cooldown, key, t) ==
    IF CooldownBlocked(la, cooldown, key, t)
    THEN la
    ELSE DictSet(la, key, t)

\* AlertCooldown.can_send_alert(alert_type, alert_key), under its lock.
AlertCooldown_can_send_alert(alert_type, alert_key) ==
    LET key == CooldownKey(alert_type, alert_key)
    IN  /\ last_alerts' = CooldownAfter(last_alerts, cooldown_seconds, key, now)
        /\ UNCHANGED cooldown_seconds

\* ------------------------------------------------------------------ clock
\* Wall-clock time passes between two calls.
Tick(steps, max) ==
    /\ ticks < max
    /\ \E d \in steps : now' = now + d
    /\ ticks' = ticks + 1

\* ------------------------------------------------------ dispatcher: data
Channels == {"desktop", "email", "webhook"}

\* alert.get(field, default) on an alert dict.
Get(alert, field, default) ==
    IF field \in DOMAIN alert THEN alert[field] ELSE default

\* d[key] += 1 on a defaultdict(int).
Incr(d, key) == DictSet(d, key, Get(d, key, 0) + 1)

\* defaultdict(lambda: {'sent': 0, 'failed': 0}): the entry of a channel.
NotifierEntry(ns, name) == Get(ns, name, [sent |-> 0, failed |-> 0])

\* self.stats['notifier_stats'][name][counter] += 1
NotifierIncr(ns, name, counter) ==
    DictSet(ns, name, [NotifierEntry(ns, name) EXCEPT ![counter] = @ + 1])

\* self.stats as __init__ builds it.
InitialStats ==
    [total_alerts |-> 0, alerts_sent |-> 0, alerts_dropped |-> 0,
     alerts_by_severity |-> EmptyDict, alerts_by_type |-> EmptyDict,
     notifier_stats |-> EmptyDict]

\* _initialize_notifiers: one notifier per enabled channel.
InitializeNotifiers(cfg) ==
    {c \in Channels :
        \/ c = "email" /\ cfg.enable_email_alerts
        \/ c = "webhook" /\ cfg.enable_webhook_alerts
        \/ c = "desktop" /\ cfg.enable_desktop_notifications}

\* A selection that sends email whatever the severity.
SelectNotifiersAnySeverity(ns, severity) ==
    (IF "desktop" \in ns THEN <<"desktop">> ELSE <<>>)
    \o (IF "email" \in ns THEN <<"email">> ELSE <<>>)
    \o (IF "webhook" \in ns THEN <<"webhook">> ELSE <<>>)

\* _select_notifiers(severity): the channel names, in the order they are used.
SelectNotifiers(ns, severity) ==
    (IF "desktop" \in ns THEN <<"desktop">> ELSE <<>>)
    \o (IF severity \in {"HIGH", "CRITICAL"} /\ "email" \in ns THEN <<"email">> ELSE <<>>)
    \o (IF "webhook" \in ns THEN <<"webhook">> ELSE <<>>)

RequiredFields == {"id", "timestamp", "type", "severity"}

\* A validation that forgets the severity field.
ValidateAlertNoSeverity(alert) ==
    {"id", "timestamp", "type"} \subseteq DOMAIN alert

\* _validate_alert: all(field in alert for field in required_fields)
ValidateAlert(alert) == RequiredFields \subseteq DOMAIN alert

\* No alert: the value of a thread's or caller's alert local before it is bound.
NoAlert == [none |-> TRUE]

\* ------------------------------------------------- dispatcher: ingestion
\* The stats after dispatch_alert counted an accepted alert.
CountIngest(st, alert) ==
    [st EXCEPT !.total_alerts = @ + 1,
               !.alerts_by_severity = Incr(@, Get(alert, "severity", "UNKNOWN")),
               !.alerts_by_type = Incr(@, Get(alert, "type", "unknown"))]

\* dispatch_alert(alert), called while no other call of it is in progress.
dispatch_alert(alert) ==
    /\ ingests' = ingests + 1
    /\ IF ValidateAlert(alert)
       THEN /\ alert_queue' = Append(alert_queue, alert)
            /\ stats' = CountIngest(stats, alert)
       ELSE UNCHANGED <<alert_queue, stats>>
    /\ UNCHANGED <<prod, confVars, threads, lifeVars, gateVars, clockVars, detVars, runnerVars>> /\ StatsEvent

\* ------------------------------------------------ dispatcher: the consumer
\* A consumer thread that has not been created.
NoThread ==
    [pc |-> "none", alert |-> NoAlert, todo |-> <<>>, success_count |-> 0,
     calls |-> <<>>]

\* A consumer thread at the top of the loop of _process_alerts (the locals of
\* _process_single_alert are gone once it has returned).
IdleThread == [NoThread EXCEPT !.pc = "loop"]

\* Threads executing the loop of _process_alerts.
InLoop(th) == threads[th].pc \in {"loop", "get", "rate", "cooldown", "send"}

\* _process_alerts: while self.running
ConsumerLoop(th) ==
    /\ threads[th].pc = "loop"
    /\ threads' = [threads EXCEPT ![th].pc = IF running THEN "get" ELSE "done"]
    /\ UNCHANGED <<confVars, alert_queue, stats, lifeVars, ingestVars,
                   gateVars, clockVars, detVars, runnerVars>> /\ StatsEvent

\* A consumer that takes the newest alert of the queue.
ConsumerGetNewest(th) ==
    /\ threads[th].pc = "get"
    /\ IF alert_queue # <<>>
       THEN /\ threads' = [threads EXCEPT ![th] =
                  [pc |-> "rate", alert |-> alert_queue[Len(alert_queue)], todo |-> <<>>,
                   success_count |-> 0, calls |-> <<>>]]
            /\ alert_queue' = SubSeq(alert_queue, 1, Len(alert_queue) - 1)
       ELSE /\ threads' = [threads EXCEPT ![th].pc = "loop"]
            /\ UNCHANGED alert_queue
    /\ UNCHANGED <<confVars, stats, lifeVars, ingestVars,
                   gateVars, clockVars, detVars, runnerVars>> /\ StatsEvent

\* _process_alerts: alert = self.alert_queue.get(timeout=1); except Empty: continue
ConsumerGet(th) ==
    /\ threads[th].pc = "get"
    /\ IF alert_queue # <<>>
       THEN /\ threads' = [threads EXCEPT ![th] =
                  [pc |-> "rate", alert |-> Head(alert_queue), todo |-> <<>>,
                   success_count |-> 0, calls |-> <<>>]]
            /\ alert_queue' = Tail(alert_queue)
       ELSE /\ threads' = [threads EXCEPT ![th].pc = "loop"]
            /\ UNCHANGED alert_queue
    /\ UNCHANGED <<confVars, stats, lifeVars, ingestVars,
                   gateVars, clockVars, detVars, runnerVars>> /\ StatsEvent

\* A rate-limit branch that counts the rejected alert as sent.
RateRejectedCountsSent(st) == [st EXCEPT !.alerts_sent = @ + 1]

\* _process_single_alert, rate limited: self.stats['alerts_dropped'] += 1
RateRejected(st) == [st EXCEPT !.alerts_dropped = @ + 1]

\* A rate-limit step that starts the alert's cooldown although it drops it.
ConsumerRateLimitStartsCooldown(th) ==
    /\ threads[th].pc = "rate"
    /\ RateLimiter_can_send_alert
    /\ IF RateLimiterResult(alert_timestamps, max_alerts_per_hour, now)
       THEN /\ threads' = [threads EXCEPT ![th].pc = "cooldown"]
            /\ UNCHANGED <<stats, coolVars>>
       ELSE /\ threads' = [threads EXCEPT ![th] = IdleThread]
            /\ stats' = [stats EXCEPT !.alerts_dropped = @ + 1]
            /\ last_alerts' = DictSet(last_alerts, Get(threads[th].alert, "type", "unknown"), now)
            /\ UNCHANGED cooldown_seconds
    /\ UNCHANGED <<confVars, alert_queue, lifeVars, ingestVars, logVars, clockVars, detVars, runnerVars>> /\ StatsEvent

\* _process_single_alert: if not self.rate_limiter.can_send_alert(): ... return
ConsumerRateLimit(th) ==
    /\ threads[th].pc = "rate"
    /\ RateLimiter_can_send_alert
    /\ IF RateLimiterResult(alert_timestamps, max_alerts_per_hour, now)
       THEN /\ threads' = [threads EXCEPT ![th].pc = "cooldown"]
            /\ UNCHANGED stats
       ELSE /\ threads' = [threads EXCEPT ![th] = IdleThread]
            /\ stats' = RateRejected(stats)
    /\ UNCHANGED <<confVars, alert_queue, lifeVars, ingestVars,
                   coolVars, logVars, clockVars, detVars, runnerVars>> /\ StatsEvent

\* _process_single_alert, in cooldown: self.stats['alerts_dropped'] += 1
CooldownRejected(st) == [st EXCEPT !.alerts_dropped = @ + 1]

\* cooldown_key = f"{alert_type}:{alert.get('binary', '')}"
DispatchCooldownKey(alert) ==
    Get(alert, "type", "unknown") \o ":" \o Get(alert, "binary", "")

\* _process_single_alert: if not self.cooldown_manager.can_send_alert(...): ...
\* return; notifiers_to_use = self._select_notifiers(severity)
ConsumerCooldown(th) ==
    LET alert == threads[th].alert
        alert_type == Get(alert, "type", "unknown")
        key == CooldownKey(alert_type, DispatchCooldownKey(alert))
    IN  /\ threads[th].pc = "cooldown"
        /\ AlertCooldown_can_send_alert(alert_type, DispatchCooldownKey(alert))
        /\ IF CooldownResult(last_alerts, cooldown_seconds, key, now)
           THEN /\ threads' = [threads EXCEPT
                      ![th].pc = "send",
                      ![th].todo = SelectNotifiers(notifiers, Get(alert, "severity", "UNKNOWN"))]
                /\ UNCHANGED stats
           ELSE /\ threads' = [threads EXCEPT ![th] = IdleThread]
                /\ stats' = CooldownRejected(stats)
        /\ UNCHANGED <<confVars, alert_queue, lifeVars, ingestVars,
                   rateVars, logVars, clockVars, detVars, runnerVars>> /\ StatsEvent

\* What a channel adapter's send_notification can do: return True, return
\* False, raise.
SendOutcomes == {"ok", "false", "raise"}

\* A send loop that gives up on the remaining channels once one raised.
RemainingAbortOnRaise(todo, outcome) ==
    IF outcome = "raise" THEN <<>> ELSE Tail(todo)

\* The channels still to use after the first of todo was used: the for loop
\* goes on whatever send_notification did.
Remaining(todo, outcome) == Tail(todo)

\* stats['notifier_stats'] after send_notification of channel name: 'sent' on
\* True, 'failed' on False and on an exception.
CountSend(ns, name, outcome) ==
    NotifierIncr(ns, name, IF outcome = "ok" THEN "sent" ELSE "failed")

\* _process_single_alert: one iteration of the loop over notifiers_to_use.
ConsumerSend(th) ==
    /\ threads[th].pc = "send"
    /\ threads[th].todo # <<>>
    /\ \E outcome \in SendOutcomes :
         LET name == Head(threads[th].todo)
         IN  /\ threads' = [threads EXCEPT
                   ![th].todo = Remaining(@, outcome),
                   ![th].success_count = IF outcome = "ok" THEN @ + 1 ELSE @,
                   ![th].calls = Append(@, [name |-> name, outcome |-> outcome])]
             /\ stats' = [stats EXCEPT !.notifier_stats = CountSend(@, name, outcome)]
    /\ UNCHANGED <<confVars, alert_queue, lifeVars, ingestVars,
                   gateVars, clockVars, detVars, runnerVars>> /\ StatsEvent

\* An outcome that counts an alert as sent only when no channel failed.
CountOutcomeAllOrNothing(st, success_count, used) ==
    IF success_count = used /\ used > 0
    THEN [st EXCEPT !.alerts_sent = @ + 1]
    ELSE [st EXCEPT !.alerts_dropped = @ + 1]

\* _process_single_alert: if success_count > 0: alerts_sent += 1, else
\* alerts_dropped += 1 (used: the number of channels used)
CountOutcome(st, success_count, used) ==
    IF success_count > 0
    THEN [st EXCEPT !.alerts_sent = @ + 1]
    ELSE [st EXCEPT !.alerts_dropped = @ + 1]

\* An end of _process_single_alert that forgets the cooldown entry of an
\* alert no channel delivered.
ConsumerFinishRefundsCooldown(th) ==
    /\ threads[th].pc = "send"
    /\ threads[th].todo = <<>>
    /\ threads' = [threads EXCEPT ![th] = IdleThread]
    /\ stats' = CountOutcome(stats, threads[th].success_count, Len(threads[th].calls))
    /\ last_alerts' =
          IF threads[th].success_count > 0 THEN last_alerts
          ELSE [k \in DOMAIN last_alerts
                      \ {CooldownKey(Get(threads[th].alert, "type", "unknown"),
                                     DispatchCooldownKey(threads[th].alert))}
                   |-> last_alerts[k]]
    /\ UNCHANGED <<confVars, alert_queue, lifeVars, ingestVars,
                   rateVars, cooldown_seconds, logVars, clockVars, detVars, runnerVars>> /\ StatsEvent

\* _process_single_alert: after the loop over notifiers_to_use.
ConsumerFinish(th) ==
    /\ threads[th].pc = "send"
    /\ threads[th].todo = <<>>
    /\ threads' = [threads EXCEPT ![th] = IdleThread]
    /\ stats' = CountOutcome(stats, threads[th].success_count, Len(threads[th].calls))
    /\ UNCHANGED <<confVars, alert_queue, lifeVars, ingestVars,
                   gateVars, clockVars, detVars, runnerVars>> /\ StatsEvent

\* ------------------------------------------------ dispatcher: start, stop
\* Threads start() has created so far, and start() calls about to create one.
ThreadsUsed ==
    Cardinality({th \in DOMAIN threads : threads[th].pc # "none"})
    + Cardinality({c \in DOMAIN ctl : ctl[c].pc \in {"start_set", "start_spawn"}})

\* start(): if self.running: return
StartCheck(c) ==
    /\ ctl[c].pc = "idle"
    /\ ThreadsUsed < MaxThreads
    /\ IF running
       THEN UNCHANGED ctl
       ELSE ctl' = [ctl EXCEPT ![c].pc = "start_set"]
    /\ UNCHANGED <<running, processing_thread, confVars, alert_queue, stats,
                   threads, ingestVars,
                   gateVars, clockVars, detVars, runnerVars>> /\ StatsEvent

\* start(): self.running = True
StartSet(c) ==
    /\ ctl[c].pc = "start_set"
    /\ running' = TRUE
    /\ ctl' = [ctl EXCEPT ![c].pc = "start_spawn"]
    /\ UNCHANGED <<processing_thread, confVars, alert_queue, stats, threads,
                   ingestVars,
                   gateVars, clockVars, detVars, runnerVars>> /\ StatsEvent

\* start(): self.processing_thread = threading.Thread(...); .start()
StartSpawn(c) ==
    /\ ctl[c].pc = "start_spawn"
    /\ LET th == CHOOSE t \in DOMAIN threads :
                    /\ threads[t].pc = "none"
                    /\ \A u \in DOMAIN threads : threads[u].pc = "none" => t <= u
       IN  /\ threads' = [threads EXCEPT ![th] = IdleThread]
           /\ processing_thread' = th
    /\ ctl' = [ctl EXCEPT ![c].pc = "idle"]
    /\ UNCHANGED <<running, confVars, alert_queue, stats, ingestVars,
                   gateVars, clockVars, detVars, runnerVars>> /\ StatsEvent

\* start(), called while no other start() or stop() is in progress: the three
\* steps above in one.
start ==
    /\ ThreadsUsed < MaxThreads
    /\ IF running
       THEN UNCHANGED <<running, processing_thread, threads>>
       ELSE LET th == CHOOSE t \in DOMAIN threads :
                         /\ threads[t].pc = "none"
                         /\ \A u \in DOMAIN threads : threads[u].pc = "none" => t <= u
            IN  /\ running' = TRUE
                /\ threads' = [threads EXCEPT ![th] = IdleThread]
                /\ processing_thread' = th
    /\ UNCHANGED <<ctl, confVars, alert_queue, stats, ingestVars,
                   gateVars, clockVars, detVars, runnerVars>> /\ StatsEvent

\* stop(): self.running = False; if self.processing_thread: (join follows)
StopClear(c) ==
    /\ ctl[c].pc = "idle"
    /\ running' = FALSE
    /\ ctl' = IF processing_thread # 0
              THEN [ctl EXCEPT ![c] = [pc |-> "stop_join", target |-> processing_thread]]
              ELSE ctl
    /\ UNCHANGED <<processing_thread, confVars, alert_queue, stats, threads,
                   ingestVars,
                   gateVars, clockVars, detVars, runnerVars>> /\ StatsEvent

\* stop(): self.processing_thread.join(timeout=5) returns: the thread has
\* ended, or 5 s have passed while it is inside a channel's send_notification
\* (a blocking delivery: SMTP, a webhook post with timeout=10, a 10 s toast).
StopJoin(c) ==
    /\ ctl[c].pc = "stop_join"
    /\ \/ threads[ctl[c].target].pc = "done"
       \/ threads[ctl[c].target].pc = "send" /\ threads[ctl[c].target].todo # <<>>
    /\ ctl' = [ctl EXCEPT ![c] = [pc |-> "idle", target |-> 0]]
    /\ UNCHANGED <<running, processing_thread, confVars, alert_queue, stats,
                   threads, ingestVars,
                   gateVars, clockVars, detVars, runnerVars>> /\ StatsEvent

\* ------------------------------------ dispatcher: concurrent dispatch_alert
\* dispatch_alert(alert) is entered by producer p.
ProducerCall(p, alert) ==
    /\ prod[p].pc = "idle"
    /\ prod' = [prod EXCEPT ![p] = [pc |-> "validate", alert |-> alert, tmp |-> 0]]
    /\ ingests' = ingests + 1
    /\ UNCHANGED <<last_ingest, confVars, alert_queue, stats, threads, lifeVars,
                   gateVars, clockVars, detVars, runnerVars>> /\ StatsEvent

\* dispatch_alert: if not self._validate_alert(alert): return False
ProducerValidate(p) ==
    /\ prod[p].pc = "validate"
    /\ prod' = [prod EXCEPT ![p].pc =
                  IF ValidateAlert(prod[p].alert) THEN "put" ELSE "rejected"]
    /\ UNCHANGED <<last_ingest, ingests, confVars, alert_queue, stats, threads,
                   lifeVars,
                   gateVars, clockVars, detVars, runnerVars>> /\ StatsEvent

\* dispatch_alert: self.alert_queue.put(alert) (Queue.put is thread safe)
ProducerPut(p) ==
    /\ prod[p].pc = "put"
    /\ alert_queue' = Append(alert_queue, prod[p].alert)
    /\ prod' = [prod EXCEPT ![p].pc = "total"]
    /\ UNCHANGED <<last_ingest, ingests, confVars, stats, threads, lifeVars,
                   gateVars, clockVars, detVars, runnerVars>> /\ StatsEvent

\* The counter a producer at position pc updates, and its key.
ProducerCounter(pc) ==
    IF pc = "severity" THEN "alerts_by_severity" ELSE "alerts_by_type"
ProducerKey(pc, alert) ==
    IF pc = "severity" THEN Get(alert, "severity", "UNKNOWN")
    ELSE Get(alert, "type", "unknown")

\* dispatch_alert: the read of a "+= 1" on self.stats. No lock is held: the
\* read and the write are two steps (a defaultdict read inserts the default).
ProducerRead(p) ==
    /\ prod[p].pc \in {"total", "severity", "type"}
    /\ IF prod[p].pc = "total"
       THEN /\ prod' = [prod EXCEPT ![p].pc = "total_w", ![p].tmp = stats.total_alerts]
            /\ UNCHANGED stats
       ELSE LET c == ProducerCounter(prod[p].pc)
                k == ProducerKey(prod[p].pc, prod[p].alert)
            IN  /\ prod' = [prod EXCEPT ![p].pc = IF @ = "severity" THEN "severity_w" ELSE "type_w",
                                        ![p].tmp = Get(stats[c], k, 0)]
                /\ stats' = [stats EXCEPT ![c] = DictSet(@, k, Get(@, k, 0))]
    /\ UNCHANGED <<last_ingest, ingests, confVars, alert_queue, threads, lifeVars,
                   gateVars, clockVars, detVars, runnerVars>> /\ StatsEvent

\* dispatch_alert: the write of a "+= 1" on self.stats; return True after the
\* last one.
ProducerWrite(p) ==
    /\ prod[p].pc \in {"total_w", "severity_w", "type_w"}
    /\ IF prod[p].pc = "total_w"
       THEN /\ stats' = [stats EXCEPT !.total_alerts = prod[p].tmp + 1]
            /\ prod' = [prod EXCEPT ![p].pc = "severity"]
       ELSE LET r == IF prod[p].pc = "severity_w" THEN "severity" ELSE "type"
                c == ProducerCounter(r)
                k == ProducerKey(r, prod[p].alert)
            IN  /\ stats' = [stats EXCEPT ![c] = DictSet(@, k, prod[p].tmp + 1)]
                /\ prod' = [prod EXCEPT ![p].pc = IF r = "severity" THEN "type" ELSE "accepted"]
    /\ UNCHANGED <<last_ingest, ingests, confVars, alert_queue, threads, lifeVars,
                   gateVars, clockVars, detVars, runnerVars>> /\ StatsEvent

\* ------------------------------------------------ dispatcher: statistics
\* The keys of self.stats holding a number, and those holding a dict object.
StatsNumbers == {"total_alerts", "alerts_sent", "alerts_dropped"}
StatsDicts == {"alerts_by_severity", "alerts_by_type", "notifier_stats"}

\* No dict has been returned yet.
NoSnapshot == [none |-> TRUE]
NoResult == [none |-> TRUE]

\* list(self.notifiers.keys()): the channel names in the order
\* _initialize_notifiers inserted them.
NotifiersEnabled(ns) ==
    (IF "email" \in ns THEN <<"email">> ELSE <<>>)
    \o (IF "webhook" \in ns THEN <<"webhook">> ELSE <<>>)
    \o (IF "desktop" \in ns THEN <<"desktop">> ELSE <<>>)

\* dict(self.stats): a new dict with the keys of self.stats. The numbers are
\* copied; for the three dict-valued keys the new dict holds the very objects
\* self.stats holds (the copy is one level deep), named here by their key.
StatsCopy(st) ==
    [numbers |-> [k \in StatsNumbers |-> st[k]], objects |-> StatsDicts]

\* The dict get_statistics() builds.
GetStatisticsReturn(st, queue, run, ns) ==
    [stats |-> StatsCopy(st), queue_size |-> Len(queue), running |-> run,
     notifiers_enabled |-> NotifiersEnabled(ns)]

\* What the holder of a dict returned by get_statistics() reads in it while
\* self.stats is st: its own numbers, and the present content of the objects
\* it shares with self.stats.
SnapshotView(snap, st) ==
    [stats |-> [k \in StatsNumbers \cup snap.stats.objects |->
                   IF k \in StatsNumbers THEN snap.stats.numbers[k] ELSE st[k]],
     queue_size |-> snap.queue_size, running |-> snap.running,
     notifiers_enabled |-> snap.notifiers_enabled]

\* A get_statistics() that starts the counters afresh once they were read.
GetStatisticsResetsCounters ==
    /\ stat_calls < MaxStatsCalls
    /\ snapshot' = GetStatisticsReturn(stats, alert_queue, running, notifiers)
    /\ returned' = SnapshotView(snapshot', stats)
    /\ stat_calls' = stat_calls + 1
    /\ stats' = [stats EXCEPT !.total_alerts = 0, !.alerts_sent = 0, !.alerts_dropped = 0]
    /\ UNCHANGED <<confVars, alert_queue, threads, lifeVars, ingestVars,
                   gateVars, clockVars, detVars, runnerVars>>

\* get_statistics(): the caller receives the dict and reads it at once.
get_statistics ==
    /\ stat_calls < MaxStatsCalls
    /\ snapshot' = GetStatisticsReturn(stats, alert_queue, running, notifiers)
    /\ returned' = SnapshotView(snapshot', stats)
    /\ stat_calls' = stat_calls + 1
    /\ UNCHANGED <<confVars, alert_queue, stats, threads, lifeVars, ingestVars,
                   gateVars, clockVars, detVars, runnerVars>>

\* ------------------------------------------------ detector: pattern matcher
\* No call made, nothing returned.
NoCall == [none |-> TRUE]

\* ThreatIntelligence._load_threat_patterns. confidence_threshold is in
\* thousandths (0.7 is 700).
\* A catalog whose persistence pattern triggers at a confidence of 0.4.
LoadThreatPatternsLowThreshold ==
    <<[pattern_id |-> "lateral_movement", name |-> "Lateral Movement",
       severity |-> "HIGH",
       indicators |-> <<"psexec", "wmic", "net use", "net view", "rdp">>,
       mitre_techniques |-> <<"T1021", "T1077", "T1076">>,
       confidence_threshold |-> 700],
      [pattern_id |-> "data_exfiltration", name |-> "Data Exfiltration",
       severity |-> "CRITICAL",
       indicators |-> <<"ftp", "scp", "curl", "wget", "powershell downloadstring">>,
       mitre_techniques |-> <<"T1041", "T1048">>,
       confidence_threshold |-> 800],
      [pattern_id |-> "persistence", name |-> "Persistence Mechanism",
       severity |-> "HIGH",
       indicators |-> <<"schtasks", "reg add", "startup", "service">>,
       mitre_techniques |-> <<"T1053", "T1547", "T1543">>,
       confidence_threshold |-> 400],
      [pattern_id |-> "privilege_escalation", name |-> "Privilege Escalation",
       severity |-> "CRITICAL",
       indicators |-> <<"runas", "sudo", "getsystem", "bypassuac">>,
       mitre_techniques |-> <<"T1548", "T1134", "T1055">>,
       confidence_threshold |-> 800]>>

LoadThreatPatterns ==
    <<[pattern_id |-> "lateral_movement", name |-> "Lateral Movement",
       severity |-> "HIGH",
       indicators |-> <<"psexec", "wmic", "net use", "net view", "rdp">>,
       mitre_techniques |-> <<"T1021", "T1077", "T1076">>,
       confidence_threshold |-> 700],
      [pattern_id |-> "data_exfiltration", name |-> "Data Exfiltration",
       severity |-> "CRITICAL",
       indicators |-> <<"ftp", "scp", "curl", "wget", "powershell downloadstring">>,
       mitre_techniques |-> <<"T1041", "T1048">>,
       confidence_threshold |-> 800],
      [pattern_id |-> "persistence", name |-> "Persistence Mechanism",
       severity |-> "HIGH",
       indicators |-> <<"schtasks", "reg add", "startup", "service">>,
       mitre_techniques |-> <<"T1053", "T1547", "T1543">>,
       confidence_threshold |-> 600],
      [pattern_id |-> "privilege_escalation", name |-> "Privilege Escalation",
       severity |-> "CRITICAL",
       indicators |-> <<"runas", "sudo", "getsystem", "bypassuac">>,
       mitre_techniques |-> <<"T1548", "T1134", "T1055">>,
       confidence_threshold |-> 800]>>

\* str.lower(), for the ASCII letters.
LowerLetter ==
    [A |-> "a", B |-> "b", C |-> "c", D |-> "d", E |-> "e",
     F |-> "f", G |-> "g", H |-> "h", I |-> "i", J |-> "j",
     K |-> "k", L |-> "l", M |-> "m", N |-> "n", O |-> "o",
     P |-> "p", Q |-> "q", R |-> "r", S |-> "s", T |-> "t",
     U |-> "u", V |-> "v", W |-> "w", X |-> "x", Y |-> "y",
     Z |-> "z"]
LowerChar(c) == IF c \in DOMAIN LowerLetter THEN LowerLetter[c] ELSE c
RECURSIVE Lower(_)
Lower(str) ==
    IF Len(str) = 0 THEN ""
    ELSE IF Len(str) = 1 THEN LowerChar(str)
    ELSE Lower(SubSeq(str, 1, Len(str) \div 2))
         \o Lower(SubSeq(str, Len(str) \div 2 + 1, Len(str)))

\* `sub in str` on two strings.
Contains(sub, str) ==
    \E i \in 1..(Len(str) - Len(sub) + 1) : SubSeq(str, i, i + Len(sub) - 1) = sub

\* confidence += 0.2 on the doubles the sum can take, in thousandths: 0.4 + 0.2
\* is the double 0.6000000000000001 (written 601: just above 0.6), the other
\* sums up to five indicators are the doubles nearest 0.2, 0.4, 0.8 and 1.0.
FloatAddFifth(c) ==
    CASE c = 400 -> 601
      [] c = 601 -> 800
      [] OTHER -> c + 200

\* The indicators of a pattern found in the lower-cased command or binary, in
\* the pattern's order.
MatchedIndicators(pattern, command_lower, binary_lower) ==
    SelectSeq(pattern.indicators,
              LAMBDA indicator : \/ Contains(Lower(indicator), command_lower)
                                 \/ Contains(Lower(indicator), binary_lower))

\* The confidence of a pattern after the loop over its indicators: 0.2 added
\* once for each of the n indicators found.
RECURSIVE PatternConfidence(_)
PatternConfidence(n) ==
    IF n = 0 THEN 0 ELSE FloatAddFifth(PatternConfidence(n - 1))

\* if confidence >= pattern.confidence_threshold
Triggers(confidence, pattern) == confidence >= pattern.confidence_threshold

\* The threat type named after the triggered pattern of highest confidence.
ThreatTypeOfBest(matched_patterns, confidences) ==
    IF matched_patterns = <<>> THEN "Unknown"
    ELSE LET best == CHOOSE i \in DOMAIN matched_patterns :
                        \A j \in DOMAIN matched_patterns :
                            \/ confidences[matched_patterns[j]] < confidences[matched_patterns[i]]
                            \/ confidences[matched_patterns[j]] = confidences[matched_patterns[i]] /\ i <= j
         IN  threat_patterns[matched_patterns[best]].name

\* threat_type = matched_patterns[0].name if matched_patterns else "Unknown"
\* (matched_patterns: the catalog positions of the triggered patterns, in order)
ThreatType(matched_patterns, confidences) ==
    IF matched_patterns = <<>> THEN "Unknown"
    ELSE threat_patterns[Head(matched_patterns)].name

\* ThreatIntelligence._generate_recommendations: list(set(recommendations))
GenerateRecommendations(pattern_ids) ==
    (IF "lateral_movement" \in pattern_ids
     THEN {"Isolate affected system from network",
           "Check for unauthorized access to other systems",
           "Review network logs for suspicious connections"} ELSE {})
    \cup (IF "data_exfiltration" \in pattern_ids
          THEN {"Block outbound network connections",
                "Check for data loss prevention alerts",
                "Review file access logs"} ELSE {})
    \cup (IF "persistence" \in pattern_ids
          THEN {"Check scheduled tasks and startup programs",
                "Review registry modifications",
                "Scan for unauthorized services"} ELSE {})
    \cup (IF "privilege_escalation" \in pattern_ids
          THEN {"Check for unauthorized privilege changes",
                "Review user account activities",
                "Scan for privilege escalation tools"} ELSE {})

\* The larger of two numbers.
Max(a, b) == IF a >= b THEN a ELSE b

\* total_confidence = max(total_confidence, confidence) over the triggered
\* patterns, from 0.0.
RECURSIVE TotalConfidence(_, _)
TotalConfidence(matched_patterns, confidences) ==
    IF matched_patterns = <<>> THEN 0
    ELSE Max(TotalConfidence(Tail(matched_patterns), confidences),
             confidences[Head(matched_patterns)])

\* ThreatIntelligence.analyze_command(command, binary): the DetectionResult.
AnalyzeCommand(command, binary) ==
    LET command_lower == Lower(command)
        binary_lower == Lower(binary)
        indicators == [i \in DOMAIN threat_patterns |->
                          MatchedIndicators(threat_patterns[i], command_lower, binary_lower)]
        confidences == [i \in DOMAIN threat_patterns |-> PatternConfidence(Len(indicators[i]))]
        matched_patterns ==
            SelectSeq([i \in DOMAIN threat_patterns |-> i],
                      LAMBDA i : Triggers(confidences[i], threat_patterns[i]))
        total_confidence == TotalConfidence(matched_patterns, confidences)
        pattern_ids == {threat_patterns[matched_patterns[k]].pattern_id : k \in DOMAIN matched_patterns}
    IN  [threat_detected |-> total_confidence > 500,
         confidence_score |-> total_confidence,
         threat_type |-> ThreatType(matched_patterns, confidences),
         indicators_matched |->
             UNION {{indicators[matched_patterns[k]][n] : n \in DOMAIN indicators[matched_patterns[k]]}
                    : k \in DOMAIN matched_patterns},
         recommended_actions |-> GenerateRecommendations(pattern_ids),
         metadata |->
             [matched_patterns |->
                  [k \in DOMAIN matched_patterns |-> threat_patterns[matched_patterns[k]].pattern_id],
              mitre_techniques |->
                  UNION {{threat_patterns[matched_patterns[k]].mitre_techniques[n]
                             : n \in DOMAIN threat_patterns[matched_patterns[k]].mitre_techniques}
                         : k \in DOMAIN matched_patterns}]]

\* A caller calls threat_intelligence.analyze_command(command, binary) and
\* keeps the result.
analyze_command ==
    /\ "command" \in DOMAIN det_call
    /\ det_result = NoCall
    /\ det_result' = AnalyzeCommand(det_call.command, det_call.binary)
    /\ UNCHANGED <<threat_patterns, det_call, metrics_history, pushed, detectorState>>
    /\ UNCHANGED <<clockVars, gateVars, dispVars, runnerVars>>

\* ------------------------------------------- detector: BehaviorAnalyzer
RECURSIVE Sum(_)
Sum(values) ==
    IF values = <<>> THEN 0 ELSE values[1] + Sum(Tail(values))

\* [m[field] for m in self.metrics_history]
FieldValues(history, field) == [i \in DOMAIN history |-> history[i][field]]

\* len(values) * (v - statistics.mean(values)), an integer.
ScaledDeviation(values, v) == Len(values) * v - Sum(values)

\* len(values)^2 * (len(values) - 1) * statistics.variance(values): the sum
\* of the squared scaled deviations.
SumSquaredDeviations(values) ==
    Sum([i \in DOMAIN values |->
            ScaledDeviation(values, values[i]) * ScaledDeviation(values, values[i])])

\* abs((v - mean) / stdev) > halves / 2, with stdev the sample standard
\* deviation, compared without division: z^2 = (n - 1) * dev^2 / sum of squares.
ZScoreExceeds(values, v, halves) ==
    4 * (Len(values) - 1) * ScaledDeviation(values, v) * ScaledDeviation(values, v)
        > halves * halves * SumSquaredDeviations(values)

\* The anomaly appended for values[i] (i counted from 0), or nothing.
StatisticalAnomalyAt(values, metric_name, t, i) ==
    IF ZScoreExceeds(values, values[i + 1], 5)
    THEN <<[id |-> "anomaly-" \o metric_name \o "-" \o ToString(t) \o "-" \o ToString(i),
            timestamp |-> t,
            type |-> metric_name \o "_anomaly",
            severity |-> IF ZScoreExceeds(values, values[i + 1], 7) THEN "HIGH" ELSE "MEDIUM",
            metadata |-> [metric |-> metric_name, value |-> values[i + 1]]]>>
    ELSE <<>>

\* BehaviorAnalyzer._detect_statistical_anomalies(values, metric_name), at time t.
DetectStatisticalAnomalies(values, metric_name, t) ==
    IF Len(values) < 5 THEN <<>>
    ELSE IF SumSquaredDeviations(values) = 0 THEN <<>>
    ELSE StatisticalAnomalyAt(values, metric_name, t, Len(values) - 3)
         \o StatisticalAnomalyAt(values, metric_name, t, Len(values) - 2)
         \o StatisticalAnomalyAt(values, metric_name, t, Len(values) - 1)

\* The spike appended for one metric of the last five samples, or nothing:
\* current > mean(values[:-2]) * 1.5 and current > 50.
SpikeOf(recent_metrics, metric_name, t) ==
    LET values == FieldValues(recent_metrics, metric_name)
        current == values[Len(values)]
    IN  IF /\ 2 * current > Sum(SubSeq(values, 1, Len(values) - 2))
           /\ current > 50
        THEN <<[id |-> "spike-" \o metric_name \o "-" \o ToString(t),
                timestamp |-> t,
                type |-> metric_name \o "_spike",
                severity |-> "HIGH",
                metadata |-> [metric |-> metric_name, current_value |-> current]]>>
        ELSE <<>>

\* BehaviorAnalyzer._detect_sudden_spikes(), at time t.
DetectSuddenSpikes(history, t) ==
    IF Len(history) < 5 THEN <<>>
    ELSE LET recent_metrics == SubSeq(history, Len(history) - 4, Len(history))
         IN  SpikeOf(recent_metrics, "cpu_percent", t)
             \o SpikeOf(recent_metrics, "memory_percent", t)
             \o SpikeOf(recent_metrics, "process_count", t)

\* BehaviorAnalyzer.detect_anomalies(), at time t.
DetectAnomalies(history, t) ==
    IF Len(history) < 10 THEN <<>>
    ELSE DetectStatisticalAnomalies(FieldValues(history, "cpu_percent"), "cpu_percent", t)
         \o DetectStatisticalAnomalies(FieldValues(history, "memory_percent"), "memory_percent", t)
         \o DetectStatisticalAnomalies(FieldValues(history, "process_count"), "process_count", t)
         \o DetectSuddenSpikes(history, t)

\* A full window that refuses the new sample and keeps its oldest one.
DequeAppendKeepsOldest(history, sample) ==
    IF Len(history) = WindowSize THEN history
    ELSE Append(history, sample)

\* deque(maxlen=window_size).append(sample)
DequeAppend(history, sample) ==
    IF Len(history) = WindowSize THEN Append(Tail(history), sample)
    ELSE Append(history, sample)

\* The samples the collector hands over: a calm one, and one with each
\* analysed or tracked field high.
CalmSample ==
    [cpu_percent |-> 10, memory_percent |-> 10, disk_percent |-> 10,
     process_count |-> 100, network_connections |-> 0]

OutlierSamples ==
    {[CalmSample EXCEPT !.cpu_percent = 90],
     [CalmSample EXCEPT !.memory_percent = 90],
     [CalmSample EXCEPT !.disk_percent = 90],
     [CalmSample EXCEPT !.process_count = 300]}

\* Number of samples of the history that are not the calm one.
Outliers(history) == Cardinality({i \in DOMAIN history : history[i] # CalmSample})

\* BehaviorAnalyzer.add_metrics(metrics): the five fields are copied into the
\* history (the sample's timestamp is not read by the analyses).
add_metrics ==
    /\ "analyzer" \in DOMAIN det_call
    /\ det_result = NoCall
    /\ Len(metrics_history) < MaxHistory
    /\ \E metrics \in {CalmSample} \cup OutlierSamples :
          /\ metrics # CalmSample => Outliers(metrics_history) < MaxOutliers
          /\ metrics_history' = DequeAppend(metrics_history, metrics)
          /\ pushed' = Append(pushed, metrics)
    /\ UNCHANGED <<threat_patterns, det_call, det_result, detectorState>>
    /\ UNCHANGED <<clockVars, gateVars, dispVars, runnerVars>>

\* BehaviorAnalyzer.add_metrics(metrics), called with the samples of a
\* collector: every sample differs from the earlier ones in its process
\* count, and some have a high CPU value.
window_push ==
    /\ "window" \in DOMAIN det_call
    /\ Len(pushed) < MaxPushes
    /\ \E cpu \in {10, 90} :
          LET metrics == [CalmSample EXCEPT !.process_count = 100 + Len(pushed),
                                            !.cpu_percent = cpu]
          IN  /\ cpu = 90 =>
                    Cardinality({i \in DOMAIN pushed : pushed[i].cpu_percent = 90})
                        < MaxWindowOutliers
              /\ metrics_history' = DequeAppend(metrics_history, metrics)
              /\ pushed' = Append(pushed, metrics)
    /\ UNCHANGED <<threat_patterns, det_call, det_result, detectorState>>
    /\ UNCHANGED <<clockVars, gateVars, dispVars, runnerVars>>

\* A caller calls behavior_analyzer.detect_anomalies() and keeps the list
\* returned.
detect_anomalies ==
    /\ "analyzer" \in DOMAIN det_call
    /\ det_result = NoCall
    /\ det_result' = [anomalies |-> DetectAnomalies(metrics_history, now)]
    /\ UNCHANGED <<threat_patterns, det_call, metrics_history, pushed, detectorState>>
    /\ UNCHANGED <<clockVars, gateVars, dispVars, runnerVars>>

\* ------------------------------------------------ detector: correlation
\* The values of a sequence, each once, in the order of their first
\* appearance (the keys of a dict filled in that order).
RECURSIVE KeysInOrder(_)
KeysInOrder(seq) ==
    IF seq = <<>> THEN <<>>
    ELSE LET rest == KeysInOrder(SubSeq(seq, 1, Len(seq) - 1))
             last == seq[Len(seq)]
         IN  IF \E i \in DOMAIN rest : rest[i] = last THEN rest ELSE Append(rest, last)

\* [a.get('id') for a in alerts]
AlertIds(alerts) == [i \in DOMAIN alerts |-> Get(alerts[i], "id", "None")]

\* The alerts of the list with the given type: alert_types[type].
OfType(alerts, type) ==
    SelectSeq(alerts, LAMBDA a : Get(a, "type", "unknown") = type)

\* A multi-stage test that wants more than three alerts.
EnoughAlertsStrict(alerts) == Len(alerts) > 3

\* len(alerts) >= 3
EnoughAlerts(alerts) == Len(alerts) >= 3

\* EnhancedSecurityDetector._identify_attack_patterns(alerts), at time t.
IdentifyAttackPatterns(alerts, t) ==
    LET types == KeysInOrder([i \in DOMAIN alerts |-> Get(alerts[i], "type", "unknown")])
        lolbin_alerts == OfType(alerts, "lolbin_detection")
        network_alerts == OfType(alerts, "suspicious_network_activity")
    IN  (IF /\ lolbin_alerts # <<>>
            /\ OfType(alerts, "high_cpu") # <<>>
            /\ EnoughAlerts(alerts)
         THEN <<[id |-> "attack-pattern-" \o ToString(t), timestamp |-> t,
                 type |-> "multi_stage_attack", severity |-> "CRITICAL",
                 metadata |-> [related_alerts |-> AlertIds(alerts),
                               attack_stages |-> types, confidence |-> 850]]>>
         ELSE <<>>)
        \o (IF lolbin_alerts # <<>> /\ network_alerts # <<>>
            THEN <<[id |-> "exfiltration-pattern-" \o ToString(t), timestamp |-> t,
                    type |-> "data_exfiltration_pattern", severity |-> "CRITICAL",
                    metadata |-> [related_alerts |-> AlertIds(lolbin_alerts \o network_alerts),
                                  confidence |-> 900]]>>
            ELSE <<>>)

\* EnhancedSecurityDetector._identify_coordinated_attacks(alerts), at time t.
IdentifyCoordinatedAttacks(alerts, t) ==
    LET systems == KeysInOrder([i \in DOMAIN alerts |-> Get(alerts[i], "system_name", "unknown")])
        total_alerts == Len(alerts)
    IN  IF Len(systems) >= 2 /\ total_alerts >= 5
        THEN <<[id |-> "coordinated-attack-" \o ToString(t), timestamp |-> t,
                type |-> "coordinated_attack", severity |-> "CRITICAL",
                metadata |-> [affected_systems |-> systems,
                              total_alerts |-> total_alerts,
                              systems_count |-> Len(systems)]]>>
        ELSE <<>>

\* recent_alerts: the alerts with now - alert.get('timestamp', 0) <= the
\* correlation window.
RecentAlerts(alerts, t) ==
    SelectSeq(alerts, LAMBDA a : t - Get(a, "timestamp", 0) <= CorrelationWindow)

\* EnhancedSecurityDetector.correlate_events(alerts, system_metrics), at time t.
CorrelateEvents(alerts, t) ==
    IF alerts = <<>> THEN <<>>
    ELSE IdentifyAttackPatterns(RecentAlerts(alerts, t), t)
         \o IdentifyCoordinatedAttacks(RecentAlerts(alerts, t), t)

\* A caller calls detector.correlate_events(alerts, metrics) and keeps the
\* incidents returned.
correlate_events ==
    /\ "alerts" \in DOMAIN det_call
    /\ det_result = NoCall
    /\ det_result' = [incidents |-> CorrelateEvents(det_call.alerts, now)]
    /\ UNCHANGED <<threat_patterns, det_call, metrics_history, pushed, detectorState>>
    /\ UNCHANGED <<clockVars, gateVars, dispVars, runnerVars>>

\* ---------------------------------------------- detector: detect_threats
\* seq[-n:]
LastN(seq, n) ==
    IF Len(seq) <= n THEN seq ELSE SubSeq(seq, Len(seq) - n + 1, Len(seq))

\* The analyzer's history after add_metrics of each sample in turn.
RECURSIVE AddAll(_, _)
AddAll(history, samples) ==
    IF samples = <<>> THEN history
    ELSE AddAll(DequeAppend(history, Head(samples)), Tail(samples))

\* EnhancedSecurityDetector._is_increasing_trend(values, threshold=0.8)
IsIncreasingTrend(values) ==
    IF Len(values) < 3 THEN FALSE
    ELSE LET increases == Cardinality({i \in 2..Len(values) : values[i] > values[i - 1]})
         IN  5 * increases >= 4 * (Len(values) - 1)

\* EnhancedSecurityDetector._is_sustained_high(values, threshold, duration)
IsSustainedHigh(values, threshold, duration) ==
    IF Len(values) < duration THEN FALSE
    ELSE \A i \in DOMAIN LastN(values, duration) : LastN(values, duration)[i] >= threshold

\* EnhancedSecurityDetector._analyze_trends(metrics_history), at time t.
AnalyzeTrends(metrics, t) ==
    IF Len(metrics) < 5 THEN <<>>
    ELSE (IF IsIncreasingTrend(FieldValues(LastN(metrics, 10), "memory_percent"))
          THEN <<[id |-> "trend-memory-" \o ToString(t), timestamp |-> t,
                  type |-> "memory_leak_pattern", severity |-> "HIGH",
                  metadata |-> [trend_analysis |-> "increasing"]]>>
          ELSE <<>>)
         \o (IF IsSustainedHigh(FieldValues(LastN(metrics, 10), "cpu_percent"), 85, 5)
             THEN <<[id |-> "trend-cpu-" \o ToString(t), timestamp |-> t,
                     type |-> "sustained_high_cpu", severity |-> "HIGH",
                     metadata |-> [trend_analysis |-> "sustained_high"]]>>
             ELSE <<>>)

\* The analyzer's history after analyze_metrics(metrics_history): the last
\* ten samples of the list are added.
AnalyzerAfter(history, metrics) ==
    IF metrics = <<>> THEN history ELSE AddAll(history, LastN(metrics, 10))

\* EnhancedSecurityDetector.analyze_metrics(metrics_history): the detections
\* returned, at time t.
AnalyzeMetrics(metrics, history, t) ==
    IF metrics = <<>> THEN <<>>
    ELSE DetectAnomalies(AnalyzerAfter(history, metrics), t) \o AnalyzeTrends(metrics, t)

\* ' '.join(words)
RECURSIVE JoinWords(_)
JoinWords(words) ==
    IF words = <<>> THEN ""
    ELSE IF Len(words) = 1 THEN words[1]
    ELSE words[1] \o " " \o JoinWords(Tail(words))

\* EnhancedSecurityDetector._map_confidence_to_severity(confidence)
MapConfidenceToSeverity(confidence) ==
    IF confidence >= 900 THEN "CRITICAL"
    ELSE IF confidence >= 700 THEN "HIGH"
    ELSE IF confidence >= 500 THEN "MEDIUM"
    ELSE "LOW"

\* str(process.get('pid', default)): pids are written as the id writes them.
PidText(process, default) ==
    IF "pid" \in DOMAIN process THEN ToString(process.pid) ELSE default

\* The detection analyze_process_activity appends for one process, or nothing.
ProcessDetection(process, t) ==
    LET command == JoinWords(Get(process, "cmdline", <<>>))
        binary == Get(process, "name", "")
        result == AnalyzeCommand(command, binary)
    IN  IF result.threat_detected
        THEN <<[id |-> "threat-" \o PidText(process, "0") \o "-" \o ToString(t),
                timestamp |-> t,
                type |-> "threat_pattern_detected",
                severity |-> MapConfidenceToSeverity(result.confidence_score),
                binary |-> binary,
                command |-> command,
                process_id |-> PidText(process, "None"),
                user_name |-> Get(process, "username", "None"),
                metadata |-> [detection_result |-> result, process_info |-> process]]>>
        ELSE <<>>

\* EnhancedSecurityDetector.analyze_process_activity(processes), at time t.
RECURSIVE AnalyzeProcessActivity(_, _)
AnalyzeProcessActivity(processes, t) ==
    IF processes = <<>> THEN <<>>
    ELSE ProcessDetection(Head(processes), t) \o AnalyzeProcessActivity(Tail(processes), t)

\* A caller calls detector.analyze_process_activity(processes) and keeps the
\* list returned.
analyze_process_activity ==
    /\ "processes" \in DOMAIN det_call
    /\ "recent_alerts" \notin DOMAIN det_call
    /\ det_result = NoCall
    /\ det_result' = [detections |-> AnalyzeProcessActivity(det_call.processes, now)]
    /\ UNCHANGED <<threat_patterns, det_call, metrics_history, pushed, detectorState>>
    /\ UNCHANGED <<clockVars, gateVars, dispVars, runnerVars>>

\* The detections of one detect_threats call before correlation: those of
\* analyze_metrics, then those of analyze_process_activity.
RawDetections(call, history, t) ==
    AnalyzeMetrics(call.metrics_history, history, t)
    \o (IF call.processes # <<>> THEN AnalyzeProcessActivity(call.processes, t) ELSE <<>>)

\* EnhancedSecurityDetector.detect_threats(metrics_history, recent_alerts,
\* processes): all_detections, at time t.
DetectThreats(call, history, t) ==
    RawDetections(call, history, t)
    \o CorrelateEvents(call.recent_alerts, t)

\* detection_history after the entries of the given detections are appended.
RECURSIVE StoreDetections(_, _)
StoreDetections(dhistory, detections) ==
    IF detections = <<>> THEN dhistory
    ELSE LET d == Head(detections)
             entry == [timestamp |-> d.timestamp, type |-> d.type, severity |-> d.severity,
                       confidence |-> Get(Get(d, "metadata", <<>>), "confidence", 500)]
             kept == IF Len(dhistory) = DetectionHistorySize THEN Tail(dhistory) ELSE dhistory
         IN  StoreDetections(Append(kept, entry), Tail(detections))

\* A caller calls detector.detect_threats(...) and keeps the list returned.
\* (analysis_time_total, a sum of elapsed wall-clock times, is left out.)
detect_threats ==
    /\ "recent_alerts" \in DOMAIN det_call
    /\ det_result = NoCall
    /\ LET detections == DetectThreats(det_call, metrics_history, now)
           metric_detections == AnalyzeMetrics(det_call.metrics_history, metrics_history, now)
       IN  /\ det_result' = [detections |-> detections]
           /\ metrics_history' = AnalyzerAfter(metrics_history, det_call.metrics_history)
           /\ pushed' = pushed \o LastN(det_call.metrics_history, 10)
           /\ detection_history' = StoreDetections(detection_history, detections)
           /\ detection_stats' =
                 IF det_call.metrics_history = <<>> THEN detection_stats
                 ELSE [detection_stats EXCEPT
                          !.total_analyses = @ + 1,
                          !.threats_detected = @ + Len(metric_detections)]
    /\ UNCHANGED <<threat_patterns, det_call>>
    /\ UNCHANGED <<clockVars, gateVars, dispVars, runnerVars>>

\* --------------------------------------------- the service runner's loop
\* EnhancedSecurityServiceRunner.__init__: empty lists, counters at zero.
InitRunner ==
    /\ runner_metrics_history = <<>>
    /\ recent_alerts = <<>>
    /\ service_stats = [cycles_completed |-> 0, total_alerts_processed |-> 0]

\* The metrics sample of one run_monitoring_cycle(), taken at time t.
CycleSample(cpu, t) ==
    [timestamp |-> t, cpu_percent |-> cpu, memory_percent |-> 10, disk_percent |-> 10,
     process_count |-> 100, network_connections |-> 0]

\* The alert lists of one run_monitoring_cycle() at time t: none, a CPU
\* threshold alert, and that after one or two LOLBin alerts of the host.
CycleAlerts(t) ==
    LET cpu == [id |-> "threshold-cpu-" \o ToString(t), timestamp |-> t,
                type |-> "high_cpu", severity |-> "MEDIUM"]
        lolbin(pid) == [id |-> "lolbin-" \o ToString(pid) \o "-" \o ToString(t),
                        timestamp |-> t, type |-> "lolbin_detection", severity |-> "HIGH",
                        binary |-> "certutil.exe", system_name |-> "host1"]
    IN  {<<>>, <<cpu>>, <<lolbin(7), cpu>>, <<lolbin(7), lolbin(9), cpu>>}

\* What run_monitoring_cycle() returns at time t: 'metrics' and 'alerts' (it
\* has no 'processes' key).
MonitorResults(t) ==
    [metrics : {CycleSample(10, t), CycleSample(90, t)}, alerts : CycleAlerts(t)]

\* The queue after dispatch_bulk_alerts(alerts): dispatch_alert of each in turn.
RECURSIVE BulkQueue(_, _)
BulkQueue(queue, alerts) ==
    IF alerts = <<>> THEN queue
    ELSE BulkQueue(IF ValidateAlert(Head(alerts)) THEN Append(queue, Head(alerts)) ELSE queue,
                   Tail(alerts))

\* The stats after dispatch_bulk_alerts(alerts).
RECURSIVE BulkStats(_, _)
BulkStats(st, alerts) ==
    IF alerts = <<>> THEN st
    ELSE BulkStats(IF ValidateAlert(Head(alerts)) THEN CountIngest(st, Head(alerts)) ELSE st,
                   Tail(alerts))

\* The sleep at the end of a cycle: max(1, monitor_interval - cycle_time).
SleepTimes == {1, CorrelationWindow}

\* One iteration of _monitoring_loop: the monitor's result is stored, the
\* detector is called with the runner's two lists and no processes, the
\* monitor's alerts and the detections are dispatched and remembered, and the
\* loop sleeps. det_call and det_result keep the detector call of the cycle
\* and the time it was made.
monitoring_loop ==
    /\ service_stats.cycles_completed < MaxCycles
    /\ \E result \in MonitorResults(now), sleep_time \in SleepTimes :
          LET history == LastN(Append(runner_metrics_history, result.metrics),
                               RunnerMetricsKept)
              call == [metrics_history |-> history, recent_alerts |-> recent_alerts,
                       processes |-> <<>>]
              detected_threats == DetectThreats(call, metrics_history, now)
              metric_detections == AnalyzeMetrics(history, metrics_history, now)
              all_alerts == result.alerts \o detected_threats
          IN  /\ runner_metrics_history' = history
              /\ det_call' = call @@ [time |-> now]
              /\ det_result' = [detections |-> detected_threats]
              /\ metrics_history' = AnalyzerAfter(metrics_history, history)
              /\ pushed' = pushed \o LastN(history, 10)
              /\ detection_history' = StoreDetections(detection_history, detected_threats)
              /\ detection_stats' =
                    [detection_stats EXCEPT
                        !.total_analyses = @ + 1,
                        !.threats_detected = @ + Len(metric_detections)]
              /\ IF all_alerts # <<>>
                 THEN /\ alert_queue' = BulkQueue(alert_queue, all_alerts)
                      /\ stats' = BulkStats(stats, all_alerts)
                      /\ ingests' = ingests + Len(all_alerts)
                      /\ StatsEvent
                      /\ recent_alerts' = LastN(recent_alerts \o all_alerts, RecentAlertsKept)
                 ELSE UNCHANGED <<alert_queue, stats, ingests, statVars, recent_alerts>>
              /\ service_stats' =
                    [service_stats EXCEPT
                        !.cycles_completed = @ + 1,
                        !.total_alerts_processed = @ + Len(all_alerts)]
              /\ now' = now + sleep_time
    /\ UNCHANGED <<ticks, gateVars, confVars, threads, lifeVars, prod, last_ingest,
                   threat_patterns>>

\* ------------------------------------------------------------------- Init
\* AlertingConfig: the enable flags of the three channels.
Configs ==
    [enable_email_alerts : BOOLEAN, enable_webhook_alerts : BOOLEAN,
     enable_desktop_notifications : BOOLEAN]

\* AlertingConfig(): email and webhook off, desktop on.
DefaultConfig ==
    [enable_email_alerts |-> FALSE, enable_webhook_alerts |-> FALSE,
     enable_desktop_notifications |-> TRUE]

\* The dispatcher after construction, for a max_alerts_per_hour among limits
\* and a configuration among configs.
InitDispatcher(limits, configs) ==
    /\ now = 0
    /\ ticks = 0
    /\ max_alerts_per_hour \in limits
    /\ alert_timestamps = <<>>
    /\ rl_log = <<>>
    /\ cooldown_seconds = DefaultCooldown
    /\ last_alerts = EmptyDict
    /\ cd_log = <<>>
    /\ config \in configs
    /\ notifiers = InitializeNotifiers(config)
    /\ alert_queue = <<>>
    /\ running = FALSE
    /\ processing_thread = 0
    /\ stats = InitialStats
    /\ threads = [th \in 1..MaxThreads |-> NoThread]
    /\ ctl = [c \in 1..NumControllers |-> [pc |-> "idle", target |-> 0]]
    /\ prod = [p \in 1..NumProducers |-> [pc |-> "idle", alert |-> NoAlert, tmp |-> 0]]
    /\ last_ingest = [alert |-> NoAlert, accepted |-> FALSE]
    /\ ingests = 0
    /\ snapshot = NoSnapshot
    /\ returned = NoResult
    /\ stat_calls = 0

\* The detector after construction, about to be called with one of calls.
InitDetectorWith(calls) ==
    /\ threat_patterns = LoadThreatPatterns
    /\ det_call \in calls
    /\ det_result = NoCall
    /\ metrics_history = <<>>
    /\ pushed = <<>>
    /\ detection_history = <<>>
    /\ detection_stats = [total_analyses |-> 0, threats_detected |-> 0, false_positives |-> 0]
    /\ InitRunner

\* The detector after construction, no call made.
InitDetector == InitDetectorWith({NoCall})

\* The state after construction.
InitWith(limits, configs) == InitDispatcher(limits, configs) /\ InitDetector

Init == InitWith(1..MaxAlertsPerHour, Configs)

\* ------------------------------------------- the gates, called directly
\* Alert types and discriminators used for direct cooldown calls.
CallTypes == {"high_cpu", "lolbin"}
CallKeys == {"", "none"}

\* A caller calls rate_limiter.can_send_alert() and notes what it returned.
RateCall ==
    /\ Len(rl_log) < MaxRateCalls
    /\ RateLimiter_can_send_alert
    /\ rl_log' = Append(rl_log,
                        [t |-> now,
                         ok |-> RateLimiterResult(alert_timestamps, max_alerts_per_hour, now)])
    /\ UNCHANGED <<coolVars, cd_log, clockVars, dispVars, detVars, runnerVars>>

RateTick ==
    /\ Tick(RateTickSteps, MaxTicks)
    /\ UNCHANGED <<gateVars, dispVars, detVars, runnerVars>>

NextRate == RateCall \/ RateTick

SpecRate == InitWith(1..MaxAlertsPerHour, {DefaultConfig}) /\ [][NextRate]_vars

\* A caller calls cooldown_manager.can_send_alert(ty, k) and notes what it
\* returned.
CooldownCall ==
    /\ Len(cd_log) < MaxCooldownCalls
    /\ \E ty \in CallTypes, k \in CallKeys :
         /\ AlertCooldown_can_send_alert(ty, k)
         /\ cd_log' = Append(cd_log,
                [key |-> CooldownKey(ty, k), t |-> now,
                 ok |-> CooldownResult(last_alerts, cooldown_seconds, CooldownKey(ty, k), now)])
    /\ UNCHANGED <<rateVars, rl_log, clockVars, dispVars, detVars, runnerVars>>

CooldownTick ==
    /\ Tick(CooldownTickSteps, MaxTicks)
    /\ UNCHANGED <<gateVars, dispVars, detVars, runnerVars>>

NextCooldown == CooldownCall \/ CooldownTick

SpecCooldown == InitWith({MaxAlertsPerHour}, {DefaultConfig}) /\ [][NextCooldown]_vars

\* ------------------------------------- the dispatcher with one consumer
\* An alert dict with the required fields.
MakeAlert(type, severity) ==
    [id |-> "a", timestamp |-> 0, type |-> type, severity |-> severity]

\* The alerts handed to dispatch_alert: valid ones of every severity, with
\* and without a binary, and ones lacking a required field.
ValidAlerts ==
    {MakeAlert("high_cpu", "LOW"),
     MakeAlert("high_cpu", "MEDIUM"),
     [id |-> "a", timestamp |-> 0, type |-> "lolbin", severity |-> "HIGH",
      binary |-> "certutil.exe"],
     [id |-> "a", timestamp |-> 0, type |-> "lolbin", severity |-> "CRITICAL",
      binary |-> "certutil.exe"]}
InvalidAlerts ==
    {[id |-> "a", timestamp |-> 0, type |-> "lolbin"],
     [timestamp |-> 0, type |-> "lolbin", severity |-> "HIGH"],
     [id |-> "a", type |-> "high_cpu", severity |-> "LOW"],
     [id |-> "a", timestamp |-> 0, severity |-> "CRITICAL", binary |-> "certutil.exe"]}
AlertPool == ValidAlerts \cup InvalidAlerts

\* Clock advances of the dispatcher runs: one cooldown period.
DispatchTickSteps == {DefaultCooldown}

\* The max_alerts_per_hour of the dispatcher runs: 1 (a second alert within
\* the hour is rate limited) and 2 (a second alert reaches the cooldown).
DispatchLimits == {1, 2}

\* The service's call of start() (enhanced_service_runner.start).
DispatchStart == start

DispatchIngest ==
    /\ ingests < MaxIngest
    /\ \E alert \in ValidAlerts : dispatch_alert(alert)
    /\ UNCHANGED last_ingest

DispatchTick ==
    /\ Tick(DispatchTickSteps, MaxDispatchTicks)
    /\ UNCHANGED <<gateVars, dispVars, detVars, runnerVars>>

NextDispatch ==
    \/ DispatchStart
    \/ DispatchIngest
    \/ \E th \in DOMAIN threads : ConsumerLoop(th)
    \/ \E th \in DOMAIN threads : ConsumerGet(th)
    \/ \E th \in DOMAIN threads : ConsumerRateLimit(th)
    \/ \E th \in DOMAIN threads : ConsumerCooldown(th)
    \/ \E th \in DOMAIN threads : ConsumerSend(th)
    \/ \E th \in DOMAIN threads : ConsumerFinish(th)
    \/ DispatchTick

SpecDispatch == InitWith(DispatchLimits, Configs) /\ [][NextDispatch]_vars

\* --------------------------------------------- ingestion of any alert
\* A caller calls dispatch_alert(alert), valid or not, and notes what it
\* returned.
IngestCall ==
    /\ ingests < MaxIngest
    /\ \E alert \in AlertPool :
         /\ dispatch_alert(alert)
         /\ last_ingest' = [alert |-> alert, accepted |-> ValidateAlert(alert)]

NextIngest ==
    \/ DispatchStart
    \/ IngestCall
    \/ \E th \in DOMAIN threads : ConsumerLoop(th)
    \/ \E th \in DOMAIN threads : ConsumerGet(th)
    \/ \E th \in DOMAIN threads : ConsumerRateLimit(th)
    \/ \E th \in DOMAIN threads : ConsumerCooldown(th)
    \/ \E th \in DOMAIN threads : ConsumerSend(th)
    \/ \E th \in DOMAIN threads : ConsumerFinish(th)

SpecIngest == InitWith(DispatchLimits, {DefaultConfig}) /\ [][NextIngest]_vars

\* ------------------------------------------- statistics read by a caller
\* The service's call of stop() (enhanced_service_runner.stop), made while no
\* other start() or stop() is in progress.
StatsStop == \E c \in {1} : StopClear(c) \/ StopJoin(c)

\* The alerts ingested while the statistics are read.
StatsAlerts ==
    {MakeAlert("high_cpu", "LOW"),
     [id |-> "a", timestamp |-> 0, type |-> "lolbin", severity |-> "HIGH",
      binary |-> "certutil.exe"]}

StatsIngest ==
    /\ ingests < MaxIngest
    /\ \E alert \in StatsAlerts : dispatch_alert(alert)
    /\ UNCHANGED last_ingest

NextStats ==
    \/ DispatchStart
    \/ StatsStop
    \/ StatsIngest
    \/ get_statistics
    \/ \E th \in DOMAIN threads : ConsumerLoop(th)
    \/ \E th \in DOMAIN threads : ConsumerGet(th)
    \/ \E th \in DOMAIN threads : ConsumerRateLimit(th)
    \/ \E th \in DOMAIN threads : ConsumerCooldown(th)
    \/ \E th \in DOMAIN threads : ConsumerSend(th)
    \/ \E th \in DOMAIN threads : ConsumerFinish(th)

SpecStats == InitWith({1}, {DefaultConfig}) /\ [][NextStats]_vars

\* ------------------------------------ start and stop called concurrently
\* The alert ingested while start() and stop() are called.
LifecycleAlert == MakeAlert("high_cpu", "LOW")

LifecycleIngest ==
    /\ ingests < MaxIngest
    /\ dispatch_alert(LifecycleAlert)
    /\ UNCHANGED last_ingest

NextLifecycle ==
    \/ \E c \in DOMAIN ctl : StartCheck(c)
    \/ \E c \in DOMAIN ctl : StartSet(c)
    \/ \E c \in DOMAIN ctl : StartSpawn(c)
    \/ \E c \in DOMAIN ctl : StopClear(c)
    \/ \E c \in DOMAIN ctl : StopJoin(c)
    \/ LifecycleIngest
    \/ \E th \in DOMAIN threads : ConsumerLoop(th)
    \/ \E th \in DOMAIN threads : ConsumerGet(th)
    \/ \E th \in DOMAIN threads : ConsumerRateLimit(th)
    \/ \E th \in DOMAIN threads : ConsumerCooldown(th)
    \/ \E th \in DOMAIN threads : ConsumerSend(th)
    \/ \E th \in DOMAIN threads : ConsumerFinish(th)

SpecLifecycle == InitWith({MaxAlertsPerHour}, {DefaultConfig}) /\ [][NextLifecycle]_vars

\* Every thread created by start() is scheduled, and every channel delivery
\* returns: a consumer step that stays possible is eventually taken.
ConsumerFairness ==
    \A th \in 1..MaxThreads :
        /\ WF_vars(ConsumerLoop(th))
        /\ WF_vars(ConsumerGet(th))
        /\ WF_vars(ConsumerRateLimit(th))
        /\ WF_vars(ConsumerCooldown(th))
        /\ WF_vars(ConsumerSend(th))
        /\ WF_vars(ConsumerFinish(th))

SpecShutdown ==
    InitWith({MaxAlertsPerHour}, {DefaultConfig}) /\ [][NextLifecycle]_vars /\ ConsumerFairness

\* --------------------------------------- dispatch_alert called concurrently
\* The alert producer p hands to dispatch_alert: its id is the producer's.
ProducerAlerts(p) ==
    {[id |-> p, timestamp |-> 0, type |-> "high_cpu", severity |-> "LOW"],
     [id |-> p, timestamp |-> 0, type |-> "lolbin", severity |-> "HIGH",
      binary |-> "certutil.exe"],
     [id |-> p, timestamp |-> 0, type |-> "lolbin"]}

NextProducers ==
    \/ \E p \in DOMAIN prod : \E alert \in ProducerAlerts(p) : ProducerCall(p, alert)
    \/ \E p \in DOMAIN prod : ProducerValidate(p)
    \/ \E p \in DOMAIN prod : ProducerPut(p)
    \/ \E p \in DOMAIN prod : ProducerRead(p)
    \/ \E p \in DOMAIN prod : ProducerWrite(p)

SpecProducers == InitWith({MaxAlertsPerHour}, {DefaultConfig}) /\ [][NextProducers]_vars

\* ------------------------------------------- the pattern matcher, called
\* str.upper(), for the ASCII letters: command lines as typed in capitals.
UpperLetter ==
    [a |-> "A", b |-> "B", c |-> "C", d |-> "D", e |-> "E",
     f |-> "F", g |-> "G", h |-> "H", i |-> "I", j |-> "J",
     k |-> "K", l |-> "L", m |-> "M", n |-> "N", o |-> "O",
     p |-> "P", q |-> "Q", r |-> "R", s |-> "S", t |-> "T",
     u |-> "U", v |-> "V", w |-> "W", x |-> "X", y |-> "Y",
     z |-> "Z"]
UpperChar(c) == IF c \in DOMAIN UpperLetter THEN UpperLetter[c] ELSE c
RECURSIVE Upper(_)
Upper(str) ==
    IF Len(str) = 0 THEN ""
    ELSE IF Len(str) = 1 THEN UpperChar(str)
    ELSE Upper(SubSeq(str, 1, Len(str) \div 2))
         \o Upper(SubSeq(str, Len(str) \div 2 + 1, Len(str)))

\* The first k of a pattern's indicators, each after a blank.
RECURSIVE JoinFirst(_, _)
JoinFirst(indicators, k) ==
    IF k = 0 THEN "" ELSE JoinFirst(indicators, k - 1) \o " " \o indicators[k]

\* Command lines holding, for each pattern of the catalog, none to all of its
\* indicators, as they are and in capitals; and the two certutil.exe command
\* lines of the detector's tests.
AnalyzeCommands ==
    LET plain == {"cmd.exe /c"
                     \o JoinFirst(LoadThreatPatterns[1].indicators, k1)
                     \o JoinFirst(LoadThreatPatterns[2].indicators, k2)
                     \o JoinFirst(LoadThreatPatterns[3].indicators, k3)
                     \o JoinFirst(LoadThreatPatterns[4].indicators, k4) :
                  k1 \in 0..Len(LoadThreatPatterns[1].indicators),
                  k2 \in 0..Len(LoadThreatPatterns[2].indicators),
                  k3 \in 0..Len(LoadThreatPatterns[3].indicators),
                  k4 \in 0..Len(LoadThreatPatterns[4].indicators)}
    IN  plain \cup {Upper(c) : c \in plain}
        \cup {"certutil.exe -urlcache -split -f http://x/payload.exe",
              "certutil.exe -verify cert.cer"}

\* The binary names the command lines are analysed with.
AnalyzeBinaries == {"", "PsExec.exe", "certutil.exe"}

\* The calls made: every command line with no binary name, those in small
\* letters also with the binary names.
AnalyzeCalls ==
    [command : AnalyzeCommands, binary : {""}]
    \cup [command : {c \in AnalyzeCommands : Lower(c) = c}, binary : AnalyzeBinaries]

NextAnalyze == analyze_command

SpecAnalyze ==
    /\ InitDispatcher({MaxAlertsPerHour}, {DefaultConfig})
    /\ InitDetectorWith(AnalyzeCalls)
    /\ [][NextAnalyze]_vars

\* ----------------------------------------------- the correlator, called
\* Alerts as the monitor creates them: LOLBin alerts carry the system_name of
\* the host, threshold and network alerts carry none.
CorrelatePool ==
    {[id |-> "lolbin-7-0", timestamp |-> 0, type |-> "lolbin_detection",
      severity |-> "HIGH", binary |-> "certutil.exe", system_name |-> "host1"],
     [id |-> "lolbin-9-1", timestamp |-> 1, type |-> "lolbin_detection",
      severity |-> "HIGH", binary |-> "certutil.exe", system_name |-> "host2"],
     [id |-> "threshold-cpu-0", timestamp |-> 0, type |-> "high_cpu",
      severity |-> "MEDIUM"],
     [id |-> "threshold-cpu-1", timestamp |-> 1, type |-> "high_cpu",
      severity |-> "MEDIUM"],
     [id |-> "network-suspicious-7-1", timestamp |-> 1,
      type |-> "suspicious_network_activity", severity |-> "HIGH",
      binary |-> "certutil.exe"]}

\* The alert lists handed to correlate_events.
CorrelateCalls ==
    UNION {[alerts : [1..n -> CorrelatePool]] : n \in 0..MaxCorrelated}

\* Clock advances before the call: alerts of time 0 and 1 are then exactly
\* the window old, or a second older.
CorrelateTickSteps == {CorrelationWindow, CorrelationWindow + 1}

CorrelateTick ==
    /\ det_result = NoCall
    /\ Tick(CorrelateTickSteps, MaxCorrelateTicks)
    /\ UNCHANGED <<gateVars, dispVars, detVars, runnerVars>>

NextCorrelate == CorrelateTick \/ correlate_events

SpecCorrelate ==
    /\ InitDispatcher({MaxAlertsPerHour}, {DefaultConfig})
    /\ InitDetectorWith(CorrelateCalls)
    /\ [][NextCorrelate]_vars

\* ------------------------------------------ the BehaviorAnalyzer, called
NextAnomalies == add_metrics \/ detect_anomalies

SpecAnomalies ==
    /\ InitDispatcher({MaxAlertsPerHour}, {DefaultConfig})
    /\ InitDetectorWith({[analyzer |-> TRUE]})
    /\ [][NextAnomalies]_vars

\* ------------------------------------------- process analysis, called
\* One process per call, with the command lines and binary names of the
\* analyze_command calls.
ProcessCalls ==
    {[processes |-> <<[pid |-> 7, name |-> c.binary, username |-> "alice",
                       cmdline |-> <<c.command>>]>>] :
        c \in {a \in AnalyzeCalls : Lower(a.command) = a.command}}

NextProcesses == analyze_process_activity

SpecProcesses ==
    /\ InitDispatcher({MaxAlertsPerHour}, {DefaultConfig})
    /\ InitDetectorWith(ProcessCalls)
    /\ [][NextProcesses]_vars

\* ------------------------------------------- the MetricWindow, overfilled
NextWindow == window_push

SpecWindow ==
    /\ InitDispatcher({MaxAlertsPerHour}, {DefaultConfig})
    /\ InitDetectorWith({[window |-> TRUE]})
    /\ [][NextWindow]_vars

\* ------------------------------------------------- detect_threats, called
\* Processes as callers describe them: with and without a pid.
CycleProcesses ==
    {[pid |-> 7, name |-> "PsExec.exe", username |-> "alice",
      cmdline |-> <<"psexec", "wmic", "net", "use", "net", "view">>],
     [name |-> "PsExec.exe", username |-> "alice",
      cmdline |-> <<"psexec", "wmic", "net", "use", "net", "view">>],
     [name |-> "schtasks.exe", username |-> "bob",
      cmdline |-> <<"schtasks", "reg", "add", "startup">>],
     [pid |-> 9, name |-> "notepad.exe", username |-> "alice",
      cmdline |-> <<"notepad.exe">>]}

\* Metrics histories: none, ten calm samples, nine calm samples and a CPU
\* outlier, five samples of rising memory, five samples of high CPU.
CycleMetrics ==
    {<<>>,
     [i \in 1..10 |-> CalmSample],
     [i \in 1..10 |-> IF i = 10 THEN [CalmSample EXCEPT !.cpu_percent = 90] ELSE CalmSample],
     [i \in 1..5 |-> [CalmSample EXCEPT !.memory_percent = 10 * i]],
     [i \in 1..5 |-> [CalmSample EXCEPT !.cpu_percent = 90]]}

\* The alerts of earlier cycles the caller passes as recent_alerts.
CycleRecent ==
    {a \in CorrelatePool : a.id \in {"lolbin-7-0", "threshold-cpu-0", "network-suspicious-7-1"}}

\* The calls: the processes of a list are distinct processes.
CycleCalls ==
    {[metrics_history |-> m, recent_alerts |-> r, processes |-> p] :
        m \in CycleMetrics,
        r \in UNION {[1..n -> CycleRecent] : n \in 0..MaxRecent},
        p \in {q \in UNION {[1..n -> CycleProcesses] : n \in 0..MaxProcesses} :
                    \A i, j \in DOMAIN q : i # j => q[i] # q[j]}}

NextCycle == CorrelateTick \/ detect_threats

SpecCycle ==
    /\ InitDispatcher({MaxAlertsPerHour}, {DefaultConfig})
    /\ InitDetectorWith(CycleCalls)
    /\ [][NextCycle]_vars

\* ------------------------------------- a started dispatcher, never stopped
NextProgress ==
    \/ DispatchStart
    \/ StatsIngest
    \/ \E th \in DOMAIN threads : ConsumerLoop(th)
    \/ \E th \in DOMAIN threads : ConsumerGet(th)
    \/ \E th \in DOMAIN threads : ConsumerRateLimit(th)
    \/ \E th \in DOMAIN threads : ConsumerCooldown(th)
    \/ \E th \in DOMAIN threads : ConsumerSend(th)
    \/ \E th \in DOMAIN threads : ConsumerFinish(th)

\* The consumer thread is scheduled fairly; ingest and start are not forced.
SpecProgress ==
    InitWith(1..MaxAlertsPerHour, Configs) /\ [][NextProgress]_vars /\ ConsumerFairness

\* ------------------------------- producers and the consumer, interleaved
\* Threads calling dispatch_alert step by step while the consumer thread of
\* a started dispatcher runs.
NextInterleave ==
    \/ DispatchStart
    \/ \E p \in DOMAIN prod : \E alert \in ProducerAlerts(p) : ProducerCall(p, alert)
    \/ \E p \in DOMAIN prod : ProducerValidate(p)
    \/ \E p \in DOMAIN prod : ProducerPut(p)
    \/ \E p \in DOMAIN prod : ProducerRead(p)
    \/ \E p \in DOMAIN prod : ProducerWrite(p)
    \/ \E th \in DOMAIN threads : ConsumerLoop(th)
    \/ \E th \in DOMAIN threads : ConsumerGet(th)
    \/ \E th \in DOMAIN threads : ConsumerRateLimit(th)
    \/ \E th \in DOMAIN threads : ConsumerCooldown(th)
    \/ \E th \in DOMAIN threads : ConsumerSend(th)
    \/ \E th \in DOMAIN threads : ConsumerFinish(th)

SpecInterleave == InitWith({1}, {DefaultConfig}) /\ [][NextInterleave]_vars

\* ------------------------------- the correlator, fed with detector alerts
\* The elements of a sequence.
Range(seq) == {seq[i] : i \in DOMAIN seq}

\* Alerts as the detector's analyses create them at time 0: those of
\* analyze_process_activity for the processes of the pool, and those of
\* analyze_metrics for the metrics histories of the pool.
DetectorAlerts ==
    UNION {Range(ProcessDetection(p, 0)) : p \in CycleProcesses}
    \cup UNION {Range(AnalyzeMetrics(m, <<>>, 0)) : m \in CycleMetrics}

\* The alert lists handed to correlate_events: detector alerts and alerts of
\* the monitor.
FeedCalls ==
    UNION {[alerts : [1..n -> DetectorAlerts \cup CycleRecent]] : n \in 0..MaxFed}

NextFeed == CorrelateTick \/ correlate_events

SpecFeed ==
    /\ InitDispatcher({MaxAlertsPerHour}, {DefaultConfig})
    /\ InitDetectorWith(FeedCalls)
    /\ [][NextFeed]_vars

\* ------------------------------------------------------------- claims
\* The largest element of a non-empty set of integers.
MaxOf(S) == CHOOSE x \in S : \A y \in S : y <= x

\* Calls of the rate limiter before call i that were admitted and are not
\* older than one hour at the time of call i.
RateAdmittedInWindow(i) ==
    {j \in 1..(i - 1) : rl_log[j].ok /\ rl_log[j].t >= rl_log[i].t - RateWindow}

\* The admitted timestamps of the log from index i on that are not older than
\* one hour at time t, in call order.
RECURSIVE RateRetained(_, _)
RateRetained(i, t) ==
    IF i > Len(rl_log) THEN <<>>
    ELSE IF rl_log[i].ok /\ rl_log[i].t >= t - RateWindow
         THEN <<rl_log[i].t>> \o RateRetained(i + 1, t)
         ELSE RateRetained(i + 1, t)

\* C1: RateLimiter sliding window. Every call returns true iff fewer than
\* max_alerts_per_hour earlier admitted timestamps are not older than 3600 s
\* at the call; no 3600 s window ending at a call holds more than
\* max_alerts_per_hour admissions; and the limiter holds exactly the admitted
\* timestamps not older than 3600 s at the last call (a rejected call records
\* nothing).
C1_SlidingWindow ==
    /\ \A i \in DOMAIN rl_log :
          rl_log[i].ok <=> Cardinality(RateAdmittedInWindow(i)) < max_alerts_per_hour
    /\ \A i \in DOMAIN rl_log :
          Cardinality({j \in 1..i : rl_log[j].ok /\ rl_log[j].t >= rl_log[i].t - RateWindow})
              <= max_alerts_per_hour
    /\ alert_timestamps =
          IF rl_log = <<>> THEN <<>> ELSE RateRetained(1, rl_log[Len(rl_log)].t)

\* C1 witness: limit 3, three admits at the same second, a fourth call exactly
\* one hour later rejected, a fifth 3601 s after the first admitted.
C1_Witness ==
    /\ max_alerts_per_hour = 3
    /\ Len(rl_log) = 5
    /\ rl_log[1].ok /\ rl_log[2].ok /\ rl_log[3].ok
    /\ rl_log[2].t = rl_log[1].t /\ rl_log[3].t = rl_log[1].t
    /\ ~ rl_log[4].ok /\ rl_log[4].t = rl_log[1].t + RateWindow
    /\ rl_log[5].ok /\ rl_log[5].t = rl_log[1].t + RateWindow + 1

\* Earlier admitted cooldown calls for the key of call i.
CooldownAdmittedBefore(i) ==
    {j \in 1..(i - 1) : cd_log[j].ok /\ cd_log[j].key = cd_log[i].key}

\* Admitted cooldown calls for key.
CooldownAdmitted(key) ==
    {j \in DOMAIN cd_log : cd_log[j].ok /\ cd_log[j].key = key}

\* C2: CooldownFilter. Every call returns true iff its key was never admitted
\* before or at least cooldown_seconds have elapsed since the most recent
\* admitted call for that key; the map holds, for exactly the keys ever
\* admitted, the time of the most recent admitted call (a rejected call
\* refreshes nothing and no call touches another key's entry).
C2_Cooldown ==
    /\ \A i \in DOMAIN cd_log :
          cd_log[i].ok <=>
              \/ CooldownAdmittedBefore(i) = {}
              \/ cd_log[i].t - cd_log[MaxOf(CooldownAdmittedBefore(i))].t >= cooldown_seconds
    /\ DOMAIN last_alerts = {cd_log[j].key : j \in {k \in DOMAIN cd_log : cd_log[k].ok}}
    /\ \A key \in DOMAIN last_alerts :
          last_alerts[key] = cd_log[MaxOf(CooldownAdmitted(key))].t

\* C2 witness: key "high_cpu:none" admitted, rejected at once, admitted again
\* exactly cooldown_seconds after the first admission.
C2_Witness ==
    /\ Len(cd_log) >= 3
    /\ cd_log[1].key = "high_cpu:none" /\ cd_log[1].ok
    /\ cd_log[2].key = "high_cpu:none" /\ ~ cd_log[2].ok /\ cd_log[2].t = cd_log[1].t
    /\ cd_log[3].key = "high_cpu:none" /\ cd_log[3].ok
    /\ cd_log[3].t = cd_log[1].t + cooldown_seconds

\* The names of the channels of a sequence of calls.
CallNames(calls) == [i \in DOMAIN calls |-> calls[i].name]


\* The alert has the four required fields.
HasRequiredFields(alert) ==
    \A f \in {"id", "timestamp", "type", "severity"} : f \in DOMAIN alert

\* Thread th takes a step.
Steps(th) == threads'[th] # threads[th]

\* C3: dispatch_alert validation. A call with an alert lacking a required
\* field returns false and leaves the queue, the statistics, both gates and
\* the consumer unchanged; no alert lacking a required field is ever in the
\* queue or in the hands of the consumer (at a gate or a channel).
C3_InvalidRejected ==
    [][/\ (ingests' # ingests /\ ~ HasRequiredFields(last_ingest'.alert)) =>
            /\ ~ last_ingest'.accepted
            /\ alert_queue' = alert_queue
            /\ stats' = stats
            /\ alert_timestamps' = alert_timestamps
            /\ last_alerts' = last_alerts
            /\ threads' = threads
       /\ \A i \in DOMAIN alert_queue' : HasRequiredFields(alert_queue'[i])
       /\ \A th \in DOMAIN threads' :
            threads'[th].pc \in {"rate", "cooldown", "send"}
                => HasRequiredFields(threads'[th].alert)
      ]_vars

\* C3 witness: an alert is queued and counted, then an alert lacking a required
\* field was handed in and rejected.
C3_Witness ==
    /\ ingests = 2
    /\ ~ HasRequiredFields(last_ingest.alert)
    /\ ~ last_ingest.accepted
    /\ Len(alert_queue) = 1
    /\ stats.total_alerts = 1

\* Thread th is about to consult a gate that rejects its alert.
GateRejects(th) ==
    \/ /\ threads[th].pc = "rate"
       /\ ~ RateLimiterResult(alert_timestamps, max_alerts_per_hour, now)
    \/ /\ threads[th].pc = "cooldown"
       /\ ~ CooldownResult(last_alerts, cooldown_seconds,
                           CooldownKey(Get(threads[th].alert, "type", "unknown"),
                                       DispatchCooldownKey(threads[th].alert)), now)

\* C4: gate rejection. When the rate limiter or the cooldown rejects the
\* dequeued alert, alerts_dropped grows by exactly 1, alerts_sent and every
\* per-channel counter are unchanged, and the thread is back at the top of its
\* loop without having used a channel.
C4_GateRejection ==
    [][\A th \in DOMAIN threads :
          (Steps(th) /\ GateRejects(th)) =>
              /\ stats'.alerts_dropped = stats.alerts_dropped + 1
              /\ stats'.alerts_sent = stats.alerts_sent
              /\ stats'.notifier_stats = stats.notifier_stats
              /\ threads'[th].pc = "loop"
              /\ threads'[th].calls = <<>>
              /\ threads'[th].todo = <<>>
      ]_vars

\* C4 witness: with a limit of 2 and the desktop channel on, two alerts passed
\* the rate limiter, one was delivered and the other dropped by the cooldown:
\* the desktop channel was used once.
C4_Witness ==
    /\ max_alerts_per_hour = 2
    /\ "desktop" \in notifiers
    /\ Len(alert_timestamps) = 2
    /\ stats.alerts_sent = 1
    /\ stats.alerts_dropped = 1
    /\ NotifierEntry(stats.notifier_stats, "desktop") = [sent |-> 1, failed |-> 0]
    /\ \A th \in DOMAIN threads : threads[th].pc \in {"none", "loop", "get"}

\* C5: rate limiter first. A dequeued alert goes to the rate limiter; the
\* cooldown is consulted only by a thread whose alert the rate limiter has
\* just admitted; a step of the rate limiter, rejecting or not, leaves the
\* cooldown map unchanged, and a rejected alert goes no further.
C5_RateLimiterFirst ==
    [][\A th \in DOMAIN threads :
          /\ (Steps(th) /\ threads[th].pc = "get") => threads'[th].pc \in {"rate", "loop"}
          /\ (Steps(th) /\ threads'[th].pc = "cooldown") =>
                /\ threads[th].pc = "rate"
                /\ RateLimiterResult(alert_timestamps, max_alerts_per_hour, now)
          /\ (Steps(th) /\ threads[th].pc = "rate") =>
                /\ last_alerts' = last_alerts
                /\ ~ RateLimiterResult(alert_timestamps, max_alerts_per_hour, now)
                      => threads'[th].pc = "loop"
          /\ (last_alerts' # last_alerts) =>
                \E t2 \in DOMAIN threads : Steps(t2) /\ threads[t2].pc = "cooldown"
      ]_vars

\* C5 witness: with a limit of 1, one alert was delivered and a second one
\* dropped by the rate limiter; the cooldown map holds the first one's key only,
\* with the time of the first.
C5_Witness ==
    /\ max_alerts_per_hour = 1
    /\ "desktop" \in notifiers
    /\ now = DefaultCooldown
    /\ alert_timestamps = <<0>>
    /\ stats.alerts_sent = 1
    /\ stats.alerts_dropped = 1
    /\ stats.total_alerts = 2
    /\ Cardinality(DOMAIN last_alerts) = 1
    /\ \A k \in DOMAIN last_alerts : last_alerts[k] = 0
    /\ \A th \in DOMAIN threads : threads[th].pc \in {"none", "loop", "get"}

\* The per-channel counters ns with one outcome of channel name booked.
Booked(ns, name, outcome) ==
    [c \in (DOMAIN ns) \cup {name} |->
        IF c # name THEN ns[c]
        ELSE IF outcome = "ok"
             THEN [sent |-> NotifierEntry(ns, c).sent + 1,
                   failed |-> NotifierEntry(ns, c).failed]
             ELSE [sent |-> NotifierEntry(ns, c).sent,
                   failed |-> NotifierEntry(ns, c).failed + 1]]

\* C6: channel failure isolation. While an admitted alert is being sent, the
\* channels used so far followed by those still to use are the selected ones,
\* each once and in order, whatever the earlier channels did; and each use of a
\* channel adds 1 to exactly one of that channel's sent (success) and failed
\* (false or exception) and changes no other channel's counters.
C6_ChannelIsolation ==
    [][\A th \in DOMAIN threads :
          /\ threads'[th].pc = "send" =>
                CallNames(threads'[th].calls) \o threads'[th].todo
                    = SelectNotifiers(notifiers', Get(threads'[th].alert, "severity", "UNKNOWN"))
          /\ (Steps(th) /\ threads[th].pc = "send" /\ threads[th].todo # <<>>) =>
                /\ threads'[th].pc = "send"
                /\ Len(threads'[th].calls) = Len(threads[th].calls) + 1
                /\ stats'.notifier_stats =
                      Booked(stats.notifier_stats, Head(threads[th].todo),
                             threads'[th].calls[Len(threads'[th].calls)].outcome)
      ]_vars

\* C6 witness: a CRITICAL alert with the three channels on: desktop raised,
\* email succeeded, webhook returned false, and all three were used.
C6_Witness ==
    \E th \in DOMAIN threads :
        /\ threads[th].pc = "send"
        /\ threads[th].todo = <<>>
        /\ threads[th].alert.severity = "CRITICAL"
        /\ threads[th].calls = <<[name |-> "desktop", outcome |-> "raise"],
                                 [name |-> "email", outcome |-> "ok"],
                                 [name |-> "webhook", outcome |-> "false"]>>
        /\ NotifierEntry(stats.notifier_stats, "desktop") = [sent |-> 0, failed |-> 1]
        /\ NotifierEntry(stats.notifier_stats, "email") = [sent |-> 1, failed |-> 0]
        /\ NotifierEntry(stats.notifier_stats, "webhook") = [sent |-> 0, failed |-> 1]

\* C7: delivery outcome. When the sending of an admitted alert ends,
\* alerts_sent grows by exactly 1 if at least one channel reported success and
\* alerts_dropped is unchanged; otherwise (every channel failed, or none was
\* selected) alerts_dropped grows by exactly 1 and alerts_sent is unchanged.
\* Neither counter changes while the cooldown admits it or a channel is used.
C7_DeliveryOutcome ==
    [][\A th \in DOMAIN threads :
          /\ (Steps(th) /\ threads[th].pc = "send" /\ threads[th].todo = <<>>) =>
                IF \E i \in DOMAIN threads[th].calls : threads[th].calls[i].outcome = "ok"
                THEN /\ stats'.alerts_sent = stats.alerts_sent + 1
                     /\ stats'.alerts_dropped = stats.alerts_dropped
                ELSE /\ stats'.alerts_sent = stats.alerts_sent
                     /\ stats'.alerts_dropped = stats.alerts_dropped + 1
          /\ (Steps(th) /\ threads'[th].pc = "send") =>
                /\ stats'.alerts_sent = stats.alerts_sent
                /\ stats'.alerts_dropped = stats.alerts_dropped
      ]_vars

\* C7 witness: the first alert was counted as sent although the webhook
\* channel failed for it (desktop and email succeeded).
C7_Witness ==
    /\ stats.alerts_sent = 1
    /\ stats.alerts_dropped = 0
    /\ NotifierEntry(stats.notifier_stats, "webhook") = [sent |-> 0, failed |-> 1]
    /\ NotifierEntry(stats.notifier_stats, "desktop") = [sent |-> 1, failed |-> 0]
    /\ NotifierEntry(stats.notifier_stats, "email") = [sent |-> 1, failed |-> 0]
    /\ \A th \in DOMAIN threads : threads[th].pc \in {"none", "loop", "get"}

\* The channels the severity policy selects under configuration cfg.
ExpectedChannels(cfg, severity) ==
    {c \in {"desktop"} : cfg.enable_desktop_notifications}
    \cup {c \in {"email"} : cfg.enable_email_alerts /\ severity \in {"HIGH", "CRITICAL"}}
    \cup {c \in {"webhook"} : cfg.enable_webhook_alerts}

\* C8: channel selection. For an admitted alert the channels used and still to
\* use are exactly: desktop if enabled, email if enabled and the severity is
\* HIGH or CRITICAL, webhook if enabled; none of them twice.
C8_ChannelSelection ==
    \A th \in DOMAIN threads :
        threads[th].pc = "send" =>
            LET all == CallNames(threads[th].calls) \o threads[th].todo
            IN  /\ Range(all) = ExpectedChannels(config, threads[th].alert.severity)
                /\ Len(all) = Cardinality(Range(all))

\* C8 witness: a LOW alert with the three channels enabled was sent by desktop
\* and webhook only.
C8_Witness ==
    \E th \in DOMAIN threads :
        /\ threads[th].pc = "send"
        /\ threads[th].todo = <<>>
        /\ threads[th].alert.severity = "LOW"
        /\ config.enable_email_alerts
        /\ CallNames(threads[th].calls) = <<"desktop", "webhook">>

\* C9: single consumer. At most one thread executes the loop of
\* _process_alerts, whatever start() and stop() calls were made.
C9_SingleConsumer ==
    Cardinality({th \in DOMAIN threads : InLoop(th)}) <= 1

\* The sum of the values of a dict of numbers.
RECURSIVE DictSum(_)
DictSum(d) ==
    IF DOMAIN d = {} THEN 0
    ELSE LET k == CHOOSE x \in DOMAIN d : TRUE
         IN  d[k] + DictSum([x \in (DOMAIN d) \ {k} |-> d[x]])

\* The producers whose dispatch_alert call returned True.
Accepted == {p \in DOMAIN prod : prod[p].pc = "accepted"}

\* C10: concurrent producers. Once every dispatch_alert call has returned,
\* each accepted alert is in the queue exactly once, total_alerts is the number
\* of calls that returned True, and the alerts_by_severity counts and the
\* alerts_by_type counts each add up to total_alerts.
C10_NoLostUpdate ==
    (\A p \in DOMAIN prod : prod[p].pc \in {"accepted", "rejected"}) =>
        /\ \A p \in Accepted :
              Cardinality({i \in DOMAIN alert_queue : alert_queue[i] = prod[p].alert}) = 1
        /\ Len(alert_queue) = Cardinality(Accepted)
        /\ stats.total_alerts = Cardinality(Accepted)
        /\ DictSum(stats.alerts_by_severity) = stats.total_alerts
        /\ DictSum(stats.alerts_by_type) = stats.total_alerts

\* C11: cooperative shutdown. Whenever the running flag is cleared while a
\* thread executes the loop of _process_alerts, that thread eventually
\* terminates (every thread is scheduled and every delivery returns); and once
\* no consumer is left, every alert counted in total_alerts is counted as sent,
\* counted as dropped or still in the queue, those in the queue in neither.
C11_CooperativeShutdown ==
    /\ \A th \in 1..MaxThreads :
          (InLoop(th) /\ ~ running) ~> (threads[th].pc = "done")
    /\ []((\A th \in 1..MaxThreads : threads[th].pc \in {"none", "done"}) =>
            stats.total_alerts = stats.alerts_sent + stats.alerts_dropped + Len(alert_queue))

\* C12: get_statistics is a read-only, idempotent read. A call changes neither
\* the counters, the queue, the gates, the running flag, the notifiers nor the
\* consumer; what it returns is the present counters, queue size and running
\* flag; and a call made right after another call (no ingest, consumer step,
\* start or stop in between) returns a result equal to the previous one.
C12_StatisticsReadOnly ==
    [][(stat_calls' = stat_calls + 1) =>
          /\ stats' = stats
          /\ alert_queue' = alert_queue
          /\ alert_timestamps' = alert_timestamps
          /\ last_alerts' = last_alerts
          /\ running' = running
          /\ processing_thread' = processing_thread
          /\ notifiers' = notifiers
          /\ threads' = threads
          /\ returned'.stats = stats
          /\ returned'.queue_size = Len(alert_queue)
          /\ returned'.running = running
          /\ (stat_calls > 0) => (returned' = returned)
      ]_vars

\* C12 witness: two calls in a row were made while the dispatcher runs, two
\* alerts have been counted and one of them is still queued.
C12_Witness ==
    /\ stat_calls = 2
    /\ returned.running
    /\ returned.stats.total_alerts = 2
    /\ returned.queue_size = 1

\* C13: get_statistics returns a snapshot. What the holder of a returned
\* result reads in it stays what it was when it was returned, whatever was
\* ingested or processed since: total, sent, dropped, by_severity, by_type and
\* the per-channel counters.
C13_StatisticsSnapshot ==
    (returned # NoResult) => (SnapshotView(snapshot, stats) = returned)

\* 0.2 x n as a double, in thousandths (0.2 * 3 is 0.6000000000000001).
Fifths(n) == <<0, 200, 400, 601, 800, 1000>>[n + 1]

\* The number of indicators of catalog pattern i occurring in the lower-cased
\* texts.
IndicatorCount(i, command_lower, binary_lower) ==
    Cardinality({n \in DOMAIN LoadThreatPatterns[i].indicators :
                    \/ Contains(LoadThreatPatterns[i].indicators[n], command_lower)
                    \/ Contains(LoadThreatPatterns[i].indicators[n], binary_lower)})

\* The confidence, by the rule, of each catalog pattern for the call.
RuleConfidences ==
    LET command_lower == Lower(det_call.command)
        binary_lower == Lower(det_call.binary)
    IN  [i \in DOMAIN LoadThreatPatterns |->
            Fifths(IndicatorCount(i, command_lower, binary_lower))]

\* The catalog positions of the patterns that trigger with confidences conf.
Triggered(conf) ==
    {i \in DOMAIN LoadThreatPatterns : conf[i] >= LoadThreatPatterns[i].confidence_threshold}

\* An analyze_command call has returned.
Analyzed == "command" \in DOMAIN det_call /\ det_result # NoCall

\* C18: PatternMatcher.analyze result. A pattern's confidence is 0.2 x the
\* number of its indicators occurring in the lower-cased command or binary, it
\* triggers iff that is at least its threshold; confidence_score is the largest
\* confidence of a triggered pattern (0 if none), threat_detected is
\* confidence_score > 0.5, threat_type is the name of the first triggered
\* pattern in catalog order ("Unknown" if none), and the catalog is as loaded.
C18_AnalyzeResult ==
    /\ threat_patterns = LoadThreatPatterns
    /\ Analyzed =>
        LET conf == RuleConfidences
            trig == Triggered(conf)
        IN  /\ det_result.metadata.matched_patterns
                  = [k \in 1..Cardinality(trig) |->
                        LoadThreatPatterns[CHOOSE i \in trig :
                            Cardinality({j \in trig : j < i}) = k - 1].pattern_id]
            /\ det_result.confidence_score
                  = IF trig = {} THEN 0 ELSE MaxOf({conf[i] : i \in trig})
            /\ det_result.threat_detected = (det_result.confidence_score > 500)
            /\ det_result.threat_type
                  = IF trig = {} THEN "Unknown"
                    ELSE LoadThreatPatterns[CHOOSE i \in trig : \A j \in trig : i <= j].name

\* C18 witness: a command line in capitals with four indicators of the first
\* pattern (0.8) and all five of the second (1.0): the score is 1.0 and the
\* type is the first pattern's.
C18_Witness ==
    /\ Analyzed
    /\ det_result.metadata.matched_patterns = <<"lateral_movement", "data_exfiltration">>
    /\ det_call.command # Lower(det_call.command)
    /\ RuleConfidences[1] = 800
    /\ det_result.confidence_score = 1000
    /\ det_result.threat_detected
    /\ det_result.threat_type = "Lateral Movement"

\* C19: certutil detection. Analysing the certutil.exe command line that
\* downloads from a URL (binary certutil.exe) yields threat_detected with the
\* data exfiltration pattern and a confidence of at least 0.4; analysing the
\* certutil.exe command line that verifies a certificate yields no threat and
\* confidence 0.
C19_CertutilDetection ==
    (Analyzed /\ det_call.binary = "certutil.exe") =>
        /\ det_call.command = "certutil.exe -urlcache -split -f http://x/payload.exe" =>
              /\ det_result.threat_detected
              /\ det_result.threat_type = "Data Exfiltration"
              /\ det_result.confidence_score >= 400
        /\ det_call.command = "certutil.exe -verify cert.cer" =>
              /\ ~ det_result.threat_detected
              /\ det_result.confidence_score = 0

\* ------------------------------------------------ claims on correlation
\* correlate_events has been called and has returned.
Correlated == "alerts" \in DOMAIN det_call /\ det_result # NoCall

\* The positions of the call's alerts that are inside the correlation window.
InWindow == {i \in DOMAIN det_call.alerts :
                now - det_call.alerts[i].timestamp <= CorrelationWindow}

\* The ids of the in-window alerts, in the order of the list.
RECURSIVE InWindowIds(_)
InWindowIds(n) ==
    IF n = 0 THEN <<>>
    ELSE IF n \in InWindow THEN Append(InWindowIds(n - 1), det_call.alerts[n].id)
         ELSE InWindowIds(n - 1)

\* The incidents of the given type that the call returned.
IncidentsOfType(type) == SelectSeq(det_result.incidents, LAMBDA c : c.type = type)

\* C15: correlate_events returns exactly one multi_stage_attack incident,
\* CRITICAL and relating the ids of all in-window alerts, when the in-window
\* alerts include a lolbin_detection alert and a high_cpu alert and are at
\* least three; otherwise it returns no multi_stage_attack incident.
C15_MultiStage ==
    Correlated =>
        LET multi == IncidentsOfType("multi_stage_attack")
            staged == /\ \E i \in InWindow : det_call.alerts[i].type = "lolbin_detection"
                      /\ \E i \in InWindow : det_call.alerts[i].type = "high_cpu"
                      /\ Cardinality(InWindow) >= 3
        IN  IF staged
            THEN /\ Len(multi) = 1
                 /\ multi[1].severity = "CRITICAL"
                 /\ multi[1].metadata.related_alerts = InWindowIds(Len(det_call.alerts))
            ELSE multi = <<>>

\* Two pattern detections and a resource alert inside the window and a fourth
\* alert outside it: one incident, relating the three.
C15_Witness ==
    /\ Correlated
    /\ Len(det_call.alerts) = 4
    /\ Cardinality(InWindow) = 3
    /\ Len(IncidentsOfType("multi_stage_attack")) = 1
    /\ IncidentsOfType("multi_stage_attack")[1].metadata.related_alerts
         = <<"lolbin-9-1", "lolbin-9-1", "threshold-cpu-1">>

\* C16: correlate_events returns a coordinated_attack incident exactly when
\* the in-window alerts carry at least two distinct system_name values and
\* are at least five.
C16_Coordinated ==
    Correlated =>
        LET named == {i \in InWindow : "system_name" \in DOMAIN det_call.alerts[i]}
            systems == {det_call.alerts[i].system_name : i \in named}
        IN  (IncidentsOfType("coordinated_attack") # <<>>)
                <=> (Cardinality(systems) >= 2 /\ Cardinality(InWindow) >= 5)

\* ------------------------------------------- claims on anomaly detection
\* The fields the statistical rule is to track.
TrackedFields == {"cpu_percent", "memory_percent", "disk_percent", "process_count"}

\* The alerts of the returned list raised for sample i (counted from 0) of
\* the given field by the statistical rule.
AnomaliesFor(field, i) ==
    SelectSeq(det_result.anomalies,
              LAMBDA a : a.id = "anomaly-" \o field \o "-" \o ToString(now) \o "-" \o ToString(i))

\* C20: detect_anomalies returns a <field>_anomaly alert for a sample among
\* the last three of the history exactly when the history holds at least five
\* samples, the field is not constant and the sample's z-score exceeds 2.5;
\* the alert is HIGH when the z-score exceeds 3.5 and MEDIUM otherwise.
C20_StatisticalAnomaly ==
    ("anomalies" \in DOMAIN det_result) =>
        \A field \in TrackedFields :
            LET values == FieldValues(metrics_history, field)
                n == Len(values)
            IN  \A i \in 0..(n - 1) :
                   i >= n - 3 =>
                      LET due == /\ n >= 5
                                 /\ SumSquaredDeviations(values) # 0
                                 /\ ZScoreExceeds(values, values[i + 1], 5)
                          raised == AnomaliesFor(field, i)
                      IN  IF due
                          THEN /\ Len(raised) = 1
                               /\ raised[1].type = field \o "_anomaly"
                               /\ raised[1].severity
                                    = IF ZScoreExceeds(values, values[i + 1], 7)
                                      THEN "HIGH" ELSE "MEDIUM"
                          ELSE raised = <<>>

\* -------------------------------------------- claims on detection cycles
\* detect_threats has been called and has returned.
DetectedThreats == "detections" \in DOMAIN det_result

\* The types of the incidents the correlator builds.
CompositeTypes == {"multi_stage_attack", "data_exfiltration_pattern", "coordinated_attack"}

\* The alerts of the returned list raised by the analyses of this call.
RawAlerts == SelectSeq(det_result.detections, LAMBDA d : d.type \notin CompositeTypes)

\* The incidents of the returned list.
Composites == SelectSeq(det_result.detections, LAMBDA d : d.type \in CompositeTypes)

\* C14: the alerts created by a detect_threats call carry pairwise different
\* ids.
C14_UniqueIds ==
    DetectedThreats =>
        \A i, j \in DOMAIN det_result.detections :
            i # j => det_result.detections[i].id # det_result.detections[j].id

\* C17: the incidents a detect_threats call returns are those of the
\* correlator applied to the recent alerts together with the alerts raised by
\* the analyses of this call, and a multi_stage_attack incident relates every
\* alert raised in this call.
C17_CycleOrdering ==
    DetectedThreats =>
        LET merged == CorrelateEvents(det_call.recent_alerts \o RawAlerts, now)
        IN  /\ [k \in DOMAIN Composites |-> Composites[k].type]
                 = [k \in DOMAIN merged |-> merged[k].type]
            /\ \A k \in DOMAIN Composites :
                  Composites[k].type = "multi_stage_attack" =>
                      \A r \in DOMAIN RawAlerts :
                          \E n \in DOMAIN Composites[k].metadata.related_alerts :
                              Composites[k].metadata.related_alerts[n] = RawAlerts[r].id

\* ------------------------------------------- claims on analysis isolation
\* The fields the spike analysis looks at.
SpikeFields == {"cpu_percent", "memory_percent", "process_count"}

\* The spike analysis has its data (five samples) and its condition holds for
\* the field: the latest value exceeds 1.5 times the mean of the first three
\* of the last five, and 50.
SpikeDue(field) ==
    /\ Len(metrics_history) >= 5
    /\ LET values == FieldValues(metrics_history, field)
           n == Len(values)
       IN  /\ 2 * values[n] > values[n - 4] + values[n - 3] + values[n - 2]
           /\ values[n] > 50

\* C21: whenever the spike analysis has its five samples it runs and returns
\* its alert, whether or not the statistical analysis has enough samples:
\* detect_anomalies returns a <field>_spike alert exactly when the spike
\* condition holds for the field.
C21_AnalysisIsolation ==
    ("anomalies" \in DOMAIN det_result) =>
        \A field \in SpikeFields :
            SpikeDue(field) <=>
                \E k \in DOMAIN det_result.anomalies :
                    det_result.anomalies[k].type = field \o "_spike"

\* ------------------------------------------------- claims on the window
\* C22: the window holds at most WindowSize samples, and they are the last
\* min(k, WindowSize) of the k samples pushed, oldest first.
C22_WindowFifo ==
    LET k == Len(pushed)
        m == IF k <= WindowSize THEN k ELSE WindowSize
    IN  /\ Len(metrics_history) <= WindowSize
        /\ Len(metrics_history) = m
        /\ \A i \in 1..m : metrics_history[i] = pushed[k - m + i]

\* Two samples more than the capacity were pushed, the first of them with a
\* high CPU value: the window is full and that sample is no longer in it.
C22_Witness ==
    /\ Len(pushed) = WindowSize + 2
    /\ pushed[1].cpu_percent = 90
    /\ Len(metrics_history) = WindowSize
    /\ \A i \in DOMAIN metrics_history : metrics_history[i].cpu_percent = 10

\* ---------------------------------------------- claims on gate purging
\* C23: when a gate has taken an admission decision it holds no entry older
\* than its window: after a RateLimiter call no timestamp is older than
\* now - 3600, and after an AlertCooldown call no key has a last-admitted
\* time older than now - cooldown_seconds.
C23_GatePurging ==
    [][/\ rl_log' # rl_log =>
             \A i \in DOMAIN alert_timestamps' : alert_timestamps'[i] >= now - RateWindow
       /\ cd_log' # cd_log =>
             \A key \in DOMAIN last_alerts' : last_alerts'[key] >= now - cooldown_seconds]_vars

\* ------------------------------- claims on detector alerts in correlation
\* The types of the alerts the metric analyses create.
AnomalyTypes ==
    {field \o "_anomaly" : field \in SpikeFields}
    \cup {field \o "_spike" : field \in SpikeFields}
    \cup {"memory_leak_pattern", "sustained_high_cpu"}

\* C24: when the in-window alerts handed to correlate_events include an
\* alert of the process analysis and an alert of the metric analyses and are
\* at least three, a multi_stage_attack incident is returned.
C24_DetectorFeedsCorrelation ==
    Correlated =>
        ((/\ \E i \in InWindow : det_call.alerts[i].type = "threat_pattern_detected"
          /\ \E i \in InWindow : det_call.alerts[i].type \in AnomalyTypes
          /\ Cardinality(InWindow) >= 3)
            => IncidentsOfType("multi_stage_attack") # <<>>)

\* ------------------------------------- claims on counters under interleaving
\* The producers whose alert has been put on the queue.
Enqueued == {p \in DOMAIN prod : prod[p].pc \notin {"idle", "validate", "put", "rejected"}}

\* C25: in every state the alerts counted as sent or dropped are no more
\* than the alerts counted in total, and no more than the alerts put on the
\* queue and taken from it.
C25_CounterConservation ==
    /\ stats.alerts_sent + stats.alerts_dropped <= stats.total_alerts
    /\ stats.alerts_sent + stats.alerts_dropped + Len(alert_queue) <= Cardinality(Enqueued)

\* ---------------------------------------------------- claims on progress
\* The threads holding an alert taken from the queue and not yet counted.
Processing == {th \in DOMAIN threads : threads[th].pc \in {"rate", "cooldown", "send"}}

ProcessedKey(th) ==
    CooldownKey(Get(threads[th].alert, "type", "unknown"),
                DispatchCooldownKey(threads[th].alert))

\* C27: an alert that passes the rate limiter leaves its timestamp in the
\* limiter, and the timestamp stays when the cooldown then rejects the alert;
\* an alert admitted by both gates leaves its time under its cooldown key,
\* and the entry stays when the alert is then counted as dropped because no
\* channel delivered it.
C27_GateBudget ==
    [][\A th \in DOMAIN threads :
          /\ (threads[th].pc = "rate" /\ threads'[th].pc = "cooldown") =>
                /\ alert_timestamps' # <<>>
                /\ alert_timestamps'[Len(alert_timestamps')] = now
          /\ (threads[th].pc = "cooldown" /\ threads'[th].pc = "loop") =>
                /\ stats'.alerts_dropped = stats.alerts_dropped + 1
                /\ alert_timestamps' = alert_timestamps
                /\ alert_timestamps # <<>>
          /\ (threads[th].pc = "cooldown" /\ threads'[th].pc = "send") =>
                /\ ProcessedKey(th) \in DOMAIN last_alerts'
                /\ last_alerts'[ProcessedKey(th)] = now
          /\ (threads[th].pc = "send" /\ threads'[th].pc = "loop"
                /\ stats'.alerts_dropped = stats.alerts_dropped + 1) =>
                /\ last_alerts' = last_alerts
                /\ alert_timestamps' = alert_timestamps
                /\ ProcessedKey(th) \in DOMAIN last_alerts]_vars

\* Two alerts were processed and both are counted as dropped: the first
\* passed both gates and no channel delivered it, the second passed the rate
\* limiter at the same time and was rejected by the cooldown the first one
\* had started.
C27_Witness ==
    /\ stats.alerts_sent = 0
    /\ stats.alerts_dropped = 2
    /\ Len(alert_timestamps) = 2
    /\ alert_timestamps[1] = alert_timestamps[2]
    /\ DOMAIN last_alerts # {}
    /\ \A key \in DOMAIN last_alerts : last_alerts[key] = alert_timestamps[1]
    /\ Cardinality(DOMAIN last_alerts) = 1
    /\ \A th \in DOMAIN threads : threads[th].pc \in {"none", "loop", "get"}

\* ------------------------------------------- claims on process analysis
\* analyze_process_activity has been called alone and has returned.
ProcessesAnalyzed == "detections" \in DOMAIN det_result /\ "recent_alerts" \notin DOMAIN det_call

\* The indicators of pattern i found in the command line or binary name of
\* the process, counted.
ProcessIndicatorCount(process, i) ==
    Cardinality({n \in DOMAIN threat_patterns[i].indicators :
                    \/ Contains(threat_patterns[i].indicators[n], Lower(JoinWords(process.cmdline)))
                    \/ Contains(threat_patterns[i].indicators[n], Lower(process.name))})

\* Some pattern of the catalog triggers for the process: a fifth of
\* confidence per indicator found reaches the pattern's threshold.
SomePatternTriggers(process) ==
    \E i \in DOMAIN threat_patterns :
        Fifths(ProcessIndicatorCount(process, i)) >= threat_patterns[i].confidence_threshold

\* C30: process analysis creates an alert for a process exactly when some
\* catalog pattern triggers for it, and every alert it creates has a
\* confidence of at least 0.6 and a severity of MEDIUM, HIGH or CRITICAL.
C30_NeverLow ==
    ProcessesAnalyzed =>
        /\ (det_result.detections # <<>>) <=> SomePatternTriggers(det_call.processes[1])
        /\ \A k \in DOMAIN det_result.detections :
              /\ det_result.detections[k].metadata.detection_result.threat_detected
              /\ det_result.detections[k].metadata.detection_result.confidence_score >= 600
              /\ det_result.detections[k].severity \in {"MEDIUM", "HIGH", "CRITICAL"}

\* A process whose command line holds three persistence indicators and
\* nothing else: the alert has the lowest confidence there is, 0.6, and is
\* MEDIUM.
C30_Witness ==
    /\ ProcessesAnalyzed
    /\ Len(det_result.detections) = 1
    /\ det_result.detections[1].metadata.detection_result.threat_type = "Persistence Mechanism"
    /\ det_result.detections[1].metadata.detection_result.confidence_score < 700
    /\ det_result.detections[1].severity = "MEDIUM"

\* ------------------------------------------------- the runner's cycles
NextRunner == monitoring_loop

SpecRunner ==
    /\ InitDispatcher({MaxAlertsPerHour}, {DefaultConfig})
    /\ InitDetectorWith({NoCall})
    /\ [][NextRunner]_vars

\* The detector call of a runner cycle has been made.
RunnerCalled == "time" \in DOMAIN det_call

\* The original (non-composite) alerts of a list.
Originals(alerts) == SelectSeq(alerts, LAMBDA a : a.type \notin CompositeTypes)

\* The ids of the composite alerts of a list.
CompositeIds(alerts) ==
    {alerts[i].id : i \in {j \in DOMAIN alerts : alerts[j].type \in CompositeTypes}}

\* The related ids a composite carries (coordinated_attack carries none).
RelatedIds(composite) == Range(Get(composite.metadata, "related_alerts", <<>>))

\* C28: in every cycle of the service runner, the composites the detector
\* returns are those the correlation rules yield from the original
\* (non-composite) recent alerts alone, so that composites of earlier cycles
\* count towards no threshold, and no composite's related ids contain the id
\* of an earlier composite.
C28_CompositesNotEvidence ==
    RunnerCalled =>
        /\ Composites = CorrelateEvents(Originals(det_call.recent_alerts), det_call.time)
        /\ \A i \in DOMAIN Composites :
              RelatedIds(Composites[i]) \cap CompositeIds(det_call.recent_alerts) = {}

\* C29: after c cycles of the service runner every collected sample has been
\* pushed into the analyzer's window exactly once, and the window holds the
\* last min(c, capacity) collected samples in collection order.
C29_OnePushPerSample ==
    /\ pushed = runner_metrics_history
    /\ metrics_history = LastN(runner_metrics_history, WindowSize)

====
